---- MODULE Spec2Model ----
(***************************************************************************)
(* The property-tree ("PROP") codec of src/io/bin.rs: BinReader::read_tree *)
(* and BinWriter::write_tree with the value, structure, container and map  *)
(* codecs they drive, over the primitive little-endian reader and writer   *)
(* of src/io/binary_reader.rs and src/io/binary_writer.rs.                 *)
(*                                                                         *)
(* A stream is a sequence of bytes (0..255).  The codec functions are      *)
(* operators that follow the Rust functions one for one; a read returns a  *)
(* record [st, pos, v, ...]: st = "ok" with the value v and the position   *)
(* after it, "eof" / "invalid_data" for the two io::Error kinds the code   *)
(* returns, "panic" when the code unwinds instead of returning.            *)
(*                                                                         *)
(* Representation: a 32-bit quantity is an integer; a 64-bit quantity is   *)
(* the pair <<low 32 bits, high 32 bits>>; an f32 is its IEEE-754 bit      *)
(* pattern; a String is the sequence of its UTF-8 bytes.                   *)
(***************************************************************************)
EXTENDS Integers, Sequences, FiniteSets, TLC

(* ------------------------- BinValueType ------------------------------- *)
None         == 0
Boolean      == 1
SByte        == 2
Byte         == 3
Int16        == 4
UInt16       == 5
Int32        == 6
UInt32       == 7
Int64        == 8
UInt64       == 9
Float        == 10
Vector2      == 11
Vector3      == 12
Vector4      == 13
Matrix44     == 14
Color        == 15
String       == 16
Hash         == 17
Container    == 18
Container2   == 19
Structure    == 20
Embedded     == 21
Link         == 22
Optional     == 23
Map          == 24
FlagsBoolean == 25

BinValueType == None..FlagsBoolean

\* no declared type: the fields value_type / key_type of a variant without them
NoType == 0 - 1

\* FromPrimitive::from_u8 derived for BinValueType: Some(kind) or None
from_u8(n) == IF n \in BinValueType THEN <<n>> ELSE <<>>

\* ToPrimitive::to_u8 derived for BinValueType
to_u8(k) == <<k>>

(* ------------------------- little-endian bytes ------------------------ *)
RECURSIVE to_le_bytes(_, _)
\* {integer}::to_le_bytes of a value of w bytes (two's complement)
to_le_bytes(v, w) ==
    IF w = 0 THEN <<>> ELSE <<v % 256>> \o to_le_bytes(v \div 256, w - 1)

RECURSIVE from_le_bytes(_)
\* {unsigned integer}::from_le_bytes
from_le_bytes(bs) ==
    IF bs = <<>> THEN 0 ELSE Head(bs) + 256 * from_le_bytes(Tail(bs))

RECURSIVE from_le_bytes_signed(_)
\* {signed integer}::from_le_bytes: the last byte carries the sign
from_le_bytes_signed(bs) ==
    IF Len(bs) = 1
    THEN (IF Head(bs) >= 128 THEN Head(bs) - 256 ELSE Head(bs))
    ELSE Head(bs) + 256 * from_le_bytes_signed(Tail(bs))

(* ------------------------- results of a read -------------------------- *)
Ok(pos, v)          == [st |-> "ok", pos |-> pos, v |-> v, want |-> 0, what |-> "", msg |-> ""]
\* io::Error of kind UnexpectedEof, from read_exact; want/what describe the
\* field that could not be filled
Eof(pos, want, what) == [st |-> "eof", pos |-> pos, v |-> <<>>, want |-> want, what |-> what, msg |-> "failed to fill whole buffer"]
\* io::Error::new(io::ErrorKind::InvalidData, msg)
InvalidData(pos, msg) == [st |-> "invalid_data", pos |-> pos, v |-> <<>>, want |-> 0, what |-> "", msg |-> msg]
\* Option::expect on None: the thread unwinds, nothing is returned
Panic(pos, msg)     == [st |-> "panic", pos |-> pos, v |-> <<>>, want |-> 0, what |-> "", msg |-> msg]

(* ------------------------- BinaryReader ------------------------------- *)
\* read() in place of read_exact(): a short read hands back what is there
read_exact_short(bytes, pos, n, what) ==
    IF pos + n <= Len(bytes)
    THEN Ok(pos + n, SubSeq(bytes, pos + 1, pos + n))
    ELSE IF pos < Len(bytes)
         THEN Ok(Len(bytes), SubSeq(bytes, pos + 1, Len(bytes)))
         ELSE Eof(pos, n, what)

\* BufReader::read_exact of n bytes at pos.  `what` labels the field for the
\* enumeration of inputs only; the code has no such argument.
read_exact(bytes, pos, n, what) ==
    IF pos + n <= Len(bytes)
    THEN Ok(pos + n, SubSeq(bytes, pos + 1, pos + n))
    ELSE Eof(pos, n, what)

\* Each value read is bound as the parameter of a local operator named after
\* the variable the code binds it to: `let x = read()?; rest` becomes
\* LET x_(x) == IF x.st # "ok" THEN x ELSE rest IN x_(read()).  A function
\* that reads fixed fields and then nested values is given as its `header`
\* (the fixed fields, in order) followed by the reads of the nested values.
read_unsigned(bytes, pos, n, what) ==
    LET buffer_(r) == IF r.st # "ok" THEN r ELSE Ok(r.pos, from_le_bytes(r.v))
    IN  buffer_(read_exact(bytes, pos, n, what))

read_signed(bytes, pos, n, what) ==
    LET buffer_(r) == IF r.st # "ok" THEN r ELSE Ok(r.pos, from_le_bytes_signed(r.v))
    IN  buffer_(read_exact(bytes, pos, n, what))

read_i8(bytes, pos, what)  == read_signed(bytes, pos, 1, what)
read_u8(bytes, pos, what)  == read_unsigned(bytes, pos, 1, what)
read_i16(bytes, pos, what) == read_signed(bytes, pos, 2, what)
read_u16(bytes, pos, what) == read_unsigned(bytes, pos, 2, what)
read_i32(bytes, pos, what) == read_signed(bytes, pos, 4, what)
read_u32(bytes, pos, what) == read_unsigned(bytes, pos, 4, what)
\* f32::from_le_bytes keeps the bit pattern
read_f32(bytes, pos, what) == read_unsigned(bytes, pos, 4, what)

\* read_i64 / read_u64: one read_exact of 8 bytes, held as <<low, high>>
read_i64(bytes, pos, what) ==
    LET buffer_(r) ==
            IF r.st # "ok" THEN r
            ELSE Ok(r.pos, <<from_le_bytes(SubSeq(r.v, 1, 4)), from_le_bytes_signed(SubSeq(r.v, 5, 8))>>)
    IN  buffer_(read_exact(bytes, pos, 8, what))
read_u64(bytes, pos, what) ==
    LET buffer_(r) ==
            IF r.st # "ok" THEN r
            ELSE Ok(r.pos, <<from_le_bytes(SubSeq(r.v, 1, 4)), from_le_bytes(SubSeq(r.v, 5, 8))>>)
    IN  buffer_(read_exact(bytes, pos, 8, what))

read_bytes(bytes, pos, size, what) == read_exact(bytes, pos, size, what)

RECURSIVE from_utf8(_)
\* String::from_utf8: TRUE iff the bytes are well-formed UTF-8
from_utf8(bs) ==
    LET n    == Len(bs)
        b1   == bs[1]
        cont(i, lo, hi) == i <= n /\ bs[i] >= lo /\ bs[i] <= hi
    IN  IF n = 0 THEN TRUE
        ELSE IF b1 <= 127 THEN from_utf8(SubSeq(bs, 2, n))
        ELSE IF b1 >= 194 /\ b1 <= 223
             THEN cont(2, 128, 191) /\ from_utf8(SubSeq(bs, 3, n))
        ELSE IF b1 >= 224 /\ b1 <= 239
             THEN /\ cont(2, IF b1 = 224 THEN 160 ELSE 128, IF b1 = 237 THEN 159 ELSE 191)
                  /\ cont(3, 128, 191)
                  /\ from_utf8(SubSeq(bs, 4, n))
        ELSE IF b1 >= 240 /\ b1 <= 244
             THEN /\ cont(2, IF b1 = 240 THEN 144 ELSE 128, IF b1 = 244 THEN 143 ELSE 191)
                  /\ cont(3, 128, 191)
                  /\ cont(4, 128, 191)
                  /\ from_utf8(SubSeq(bs, 5, n))
        ELSE FALSE

read_string(bytes, pos, length, what) ==
    LET buffer_(buffer) ==
            IF buffer.st # "ok" THEN buffer
            ELSE IF from_utf8(buffer.v) THEN buffer
            ELSE InvalidData(buffer.pos, "invalid utf-8")
    IN  buffer_(read_bytes(bytes, pos, length, what))

(* ------------------------- f32 arithmetic of Color -------------------- *)
RECURSIVE pow2(_)
pow2(n) == IF n = 0 THEN 1 ELSE 2 * pow2(n - 1)

RECURSIVE norm_shift(_, _)
\* the least k >= 1 with b * 2^k >= 255, for 0 < b < 255: b / 255 lies in
\* [2^-k, 2^(1-k))
norm_shift(b, k) == IF b * pow2(k) >= 255 THEN k ELSE norm_shift(b, k + 1)

\* `b as f32 / 255.0`: the f32 nearest to b / 255, as its bit pattern
u8_as_f32_div_255(b) ==
    IF b = 0 THEN 0
    ELSE IF b = 255 THEN 127 * pow2(23)
    ELSE LET k == norm_shift(b, 1)
             \* mantissa = round(b * 2^(23 + k) / 255), with
             \* b * 2^(23 + k) = 256 * A = 255 * A + A
             A == b * pow2(15 + k)
             q == A + (A \div 255)
             m == IF 2 * (A % 255) > 255 THEN q + 1 ELSE q
         IN  (127 - k) * pow2(23) + (m - pow2(23))

\* q / 2^s rounded to nearest, ties to even, for the product 255 * m with
\* m = a * 2^s + c: 255 * m / 2^s = 255 * a + 255 * c / 2^s
round_product(m, s) ==
    LET a    == m \div pow2(s)
        c    == m % pow2(s)
        fl   == 255 * a + ((255 * c) \div pow2(s))
        rem  == (255 * c) % pow2(s)
        half == pow2(s - 1)
    IN  IF rem > half \/ (rem = half /\ fl % 2 = 1) THEN fl + 1 ELSE fl

\* `(x * 255.0) as u8` for an f32 x >= 0 given by its bits: the f32 product,
\* then the saturating, truncating cast
f32_mul_255_as_u8(bits) ==
    LET e    == bits \div pow2(23)
        frac == bits % pow2(23)
        m    == pow2(23) + frac
        s    == IF m <= 8421504 THEN 7 ELSE 8      \* 255 * m < 2^31 or not
        q    == round_product(m, s)
        t    == e - 150 + s                        \* product = q * 2^t
    IN  IF e = 0 THEN 0                            \* zero or subnormal
        ELSE IF e = 255 THEN (IF frac = 0 THEN 255 ELSE 0)   \* inf, NaN
        ELSE IF t >= 0 THEN 255
        ELSE IF 0 - t > 24 THEN 0
        ELSE LET i == q \div pow2(0 - t) IN IF i > 255 THEN 255 ELSE i

f32_is_nan(bits) == (bits \div pow2(23)) % 256 = 255 /\ bits % pow2(23) # 0
\* f32 == f32 (PartialEq): NaN equals nothing; the bit patterns held here
\* have the sign bit clear, so equal numbers have equal bits
f32_eq(a, b) == ~f32_is_nan(a) /\ ~f32_is_nan(b) /\ a = b

(* ------------------------- BinValue ----------------------------------- *)
\* A BinValue variant as one record shape: kind (the variant), name, and
\*   value       the scalar payload: <<v>>, the f32 bit patterns of a vector,
\*               matrix or colour, <<low, high>> of a 64-bit integer, the
\*               bytes of a String
\*   value_type  Optional.value_type, BinContainer.value_type, BinMap.value_type
\*   key_type    BinMap.key_type
\*   struct_name BinStructure.name
\*   items       BinContainer.values, BinStructure.fields, or the Optional's
\*               payload (<<>> for Option::None, <<v>> for Some(v))
\*   map         BinMap.map, a sequence of [key, value] in iteration order
BinValue(kind, name, value) ==
    [kind |-> kind, name |-> name, value |-> value, value_type |-> NoType,
     key_type |-> NoType, struct_name |-> 0, items |-> <<>>, map |-> <<>>]

BinStructure(name, fields) == [name |-> name, fields |-> fields]
BinContainer(value_type, values) == [value_type |-> value_type, values |-> values]
BinMap(key_type, value_type, map) == [key_type |-> key_type, value_type |-> value_type, map |-> map]

FloatKinds == {Float, Vector2, Vector3, Vector4, Matrix44, Color}

\* impl Hash for BinValue: the sequence of writes made to the hasher state,
\* each [w: bytes written, v: value]
\* StringHasher::write_string_lc: the iterator adaptor c.to_lowercase().map(..)
\* is built and dropped without being run, so nothing reaches the hasher
write_string_lc(string) == <<>>

\* a hash that feeds the name and the whole payload of every variant, a
\* map's entries in iteration order
hash_payload(v) ==
    <<[w |-> 4, v |-> <<v.name>>], [w |-> 0, v |-> <<v.value, v.items, v.map>>]>>

hash(v) ==
    IF v.kind \in {Boolean, Byte}
        THEN <<[w |-> 4, v |-> <<v.name>>], [w |-> 1, v |-> v.value]>>
    ELSE IF v.kind = SByte
        THEN <<[w |-> 4, v |-> <<v.name>>], [w |-> 1, v |-> v.value]>>
    ELSE IF v.kind \in {Int16, UInt16}
        THEN <<[w |-> 4, v |-> <<v.name>>], [w |-> 2, v |-> v.value]>>
    ELSE IF v.kind \in {Int32, UInt32, Hash}
        THEN <<[w |-> 4, v |-> <<v.name>>], [w |-> 4, v |-> v.value]>>
    ELSE IF v.kind \in {Int64, UInt64}
        THEN <<[w |-> 4, v |-> <<v.name>>], [w |-> 8, v |-> v.value]>>
    ELSE IF v.kind = String
        THEN <<[w |-> 4, v |-> <<v.name>>]>> \o write_string_lc(v.value)
    ELSE <<[w |-> 1, v |-> <<0>>]>>   \* Hack

RECURSIVE BinValue_eq(_, _)
RECURSIVE HashMap_find(_, _)
RECURSIVE HashMap_eq(_, _)
\* HashMap::get: the position of the entry whose key has the hash of k and
\* equals k, 0 if there is none
HashMap_find(map, k) ==
    LET found == {i \in 1..Len(map) : hash(map[i].key) = hash(k) /\ BinValue_eq(map[i].key, k)}
    IN  IF found = {} THEN 0 ELSE CHOOSE i \in found : \A j \in found : i <= j

\* PartialEq of HashMap: same length, and every key of a found in b with an
\* equal value
HashMap_eq(a, b) ==
    /\ Len(a) = Len(b)
    /\ \A i \in 1..Len(a) :
          LET j == HashMap_find(b, a[i].key)
          IN  j # 0 /\ BinValue_eq(a[i].value, b[j].value)

\* #[derive(PartialEq)] for BinValue, BinStructure, BinContainer, BinMap
BinValue_eq(a, b) ==
    /\ a.kind = b.kind
    /\ a.name = b.name
    /\ IF a.kind \in FloatKinds
       THEN /\ Len(a.value) = Len(b.value)
            /\ \A i \in 1..Len(a.value) : f32_eq(a.value[i], b.value[i])
       ELSE a.value = b.value
    /\ a.value_type = b.value_type
    /\ a.key_type = b.key_type
    /\ a.struct_name = b.struct_name
    /\ Len(a.items) = Len(b.items)
    /\ \A i \in 1..Len(a.items) : BinValue_eq(a.items[i], b.items[i])
    /\ HashMap_eq(a.map, b.map)

\* an insert that leaves the value of a key already present
HashMap_insert_keep(map, k, v) ==
    LET i == HashMap_find(map, k)
    IN  IF i = 0 THEN Append(map, [key |-> k, value |-> v]) ELSE map

\* HashMap::insert: an equal key keeps its entry (and the key first inserted)
\* and takes the new value; a new key is added
HashMap_insert(map, k, v) ==
    LET i == HashMap_find(map, k)
    IN  IF i = 0 THEN Append(map, [key |-> k, value |-> v])
        ELSE [map EXCEPT ![i] = [key |-> map[i].key, value |-> v]]

(* ------------------------- type-tag codec ----------------------------- *)
\* an unpacking that takes only the bytes pack_value_type produces
unpack_value_type_strict(value_type) ==
    LET unpacked == IF (value_type \div 128) % 2 = 1
                    THEN (value_type - 128) + 18
                    ELSE value_type
        kind     == IF value_type \in 18..25 THEN <<>> ELSE from_u8(unpacked)
    IN  IF kind = <<>> THEN Panic(0, "Invalid Value type") ELSE Ok(0, kind[1])

\* BinValue::unpack_value_type: Ok(kind), or the panic of expect()
unpack_value_type(value_type) ==
    LET unpacked == IF (value_type \div 128) % 2 = 1
                    THEN (value_type - 128) + 18
                    ELSE value_type
        kind     == from_u8(unpacked)
    IN  IF kind = <<>> THEN Panic(0, "Invalid Value type") ELSE Ok(0, kind[1])

\* packing that sets the high bit without rebasing the kind
pack_value_type_no_rebase(value_type) ==
    LET v == to_u8(value_type)[1]
    IN  IF v >= 18 THEN v + 128 ELSE v

\* packing that writes the index of every kind
pack_value_type_index(value_type) == to_u8(value_type)[1]

\* BinValue::pack_value_type
pack_value_type(value_type) ==
    LET v == to_u8(value_type)[1]
    IN  IF v >= 18 THEN (v - 18) + 128 ELSE v

\* reader.read_u8()? then unpack_value_type: the kind, at the position after
\* the tag byte
read_value_type(bytes, pos, what) ==
    LET kind_(tag, kind) == [kind EXCEPT !.pos = tag.pos]
        tag_(tag) ==
            IF tag.st # "ok" THEN tag ELSE kind_(tag, unpack_value_type(tag.v))
    IN  tag_(read_u8(bytes, pos, what))

(* ------------------------- decoding ----------------------------------- *)
RECURSIVE read_f32_n(_, _, _, _)
\* n consecutive read_f32: Vector2/3/4::read and the Matrix44 loops
read_f32_n(bytes, pos, n, acc) ==
    LET f_(f) ==
            IF f.st # "ok" THEN f
            ELSE read_f32_n(bytes, f.pos, n - 1, Append(acc, f.v))
    IN  IF n = 0 THEN Ok(pos, acc) ELSE f_(read_f32(bytes, pos, "floats"))

Vector2_read(bytes, pos) == read_f32_n(bytes, pos, 2, <<>>)
Vector3_read(bytes, pos) == read_f32_n(bytes, pos, 3, <<>>)
Vector4_read(bytes, pos) == read_f32_n(bytes, pos, 4, <<>>)

RECURSIVE read_rgba_u8_n(_, _, _, _)
read_rgba_u8_n(bytes, pos, n, acc) ==
    LET c_(c) ==
            IF c.st # "ok" THEN c
            ELSE read_rgba_u8_n(bytes, c.pos, n - 1, Append(acc, u8_as_f32_div_255(c.v)))
    IN  IF n = 0 THEN Ok(pos, acc) ELSE c_(read_u8(bytes, pos, "color"))

\* ColorRgba::read_rgba_u8 for LinSrgba: red, green, blue, alpha
read_rgba_u8(bytes, pos) == read_rgba_u8_n(bytes, pos, 4, <<>>)

RECURSIVE read_value(_, _, _, _)
RECURSIVE BinValue_read(_, _)
RECURSIVE read_optional(_, _)
RECURSIVE BinStructure_read(_, _)
RECURSIVE BinContainer_read(_, _)
RECURSIVE BinMap_read(_, _)
RECURSIVE read_named_values(_, _, _, _)
RECURSIVE read_container_values(_, _, _, _, _)
RECURSIVE read_map_entries(_, _, _, _, _, _)

\* a wrapper that makes every scalar a UInt32
Scalar_as_UInt32(r, kind, name) ==
    IF r.st # "ok" THEN r ELSE Ok(r.pos, BinValue(UInt32, name, <<r.v>>))

\* wraps a successful payload read r into the variant `kind`
Scalar(r, kind, name) ==
    IF r.st # "ok" THEN r ELSE Ok(r.pos, BinValue(kind, name, <<r.v>>))

Wide(r, kind, name) ==
    IF r.st # "ok" THEN r ELSE Ok(r.pos, BinValue(kind, name, r.v))

Flag(r, kind, name) ==
    IF r.st # "ok" THEN r
    ELSE Ok(r.pos, BinValue(kind, name, <<IF r.v # 0 THEN 1 ELSE 0>>))

\* BinValue::read_value
read_value(bytes, pos, name, value_type) ==
    LET length_(length) ==
            IF length.st # "ok" THEN length
            ELSE Wide(read_string(bytes, length.pos, length.v, "str"), String, name)
        container_(c) ==
            IF c.st # "ok" THEN c
            ELSE Ok(c.pos, [BinValue(value_type, name, <<>>) EXCEPT
                               !.value_type = c.v.value_type, !.items = c.v.values])
        structure_(s) ==
            IF s.st # "ok" THEN s
            ELSE Ok(s.pos, [BinValue(value_type, name, <<>>) EXCEPT
                               !.struct_name = s.v.name, !.items = s.v.fields])
        optional_(optional) ==
            IF optional.st # "ok" THEN optional
            ELSE Ok(optional.pos, [BinValue(Optional, name, <<>>) EXCEPT
                               !.value_type = optional.v[1], !.items = optional.v[2]])
        map_(m) ==
            IF m.st # "ok" THEN m
            ELSE Ok(m.pos, [BinValue(Map, name, <<>>) EXCEPT
                               !.key_type = m.v.key_type, !.value_type = m.v.value_type,
                               !.map = m.v.map])
    IN
    CASE value_type = None    -> Ok(pos, BinValue(None, name, <<>>))
      [] value_type = Boolean -> Flag(read_u8(bytes, pos, "bool"), Boolean, name)
      [] value_type = SByte   -> Scalar(read_i8(bytes, pos, "sint"), SByte, name)
      [] value_type = Byte    -> Scalar(read_u8(bytes, pos, "uint"), Byte, name)
      [] value_type = Int16   -> Scalar(read_i16(bytes, pos, "sint"), Int16, name)
      [] value_type = UInt16  -> Scalar(read_u16(bytes, pos, "uint"), UInt16, name)
      [] value_type = Int32   -> Scalar(read_i32(bytes, pos, "sint"), Int32, name)
      [] value_type = UInt32  -> Scalar(read_u32(bytes, pos, "uint"), UInt32, name)
      [] value_type = Int64   -> Wide(read_i64(bytes, pos, "sint"), Int64, name)
      [] value_type = UInt64  -> Wide(read_u64(bytes, pos, "uint"), UInt64, name)
      [] value_type = Float   -> Scalar(read_f32(bytes, pos, "float"), Float, name)
      [] value_type = Vector2 -> Wide(Vector2_read(bytes, pos), Vector2, name)
      [] value_type = Vector3 -> Wide(Vector3_read(bytes, pos), Vector3, name)
      [] value_type = Vector4 -> Wide(Vector4_read(bytes, pos), Vector4, name)
      [] value_type = Matrix44 -> Wide(read_f32_n(bytes, pos, 16, <<>>), Matrix44, name)
      [] value_type = Color   -> Wide(read_rgba_u8(bytes, pos), Color, name)
      [] value_type = String  -> length_(read_u16(bytes, pos, "str_len"))
      [] value_type = Hash    -> Scalar(read_u32(bytes, pos, "hash"), Hash, name)
      [] value_type \in {Container, Container2} -> container_(BinContainer_read(bytes, pos))
      [] value_type \in {Structure, Embedded} -> structure_(BinStructure_read(bytes, pos))
      [] value_type = Link    -> Scalar(read_u32(bytes, pos, "hash"), Link, name)
      [] value_type = Optional -> optional_(read_optional(bytes, pos))
      [] value_type = Map     -> map_(BinMap_read(bytes, pos))
      [] value_type = FlagsBoolean -> Flag(read_u8(bytes, pos, "bool"), FlagsBoolean, name)
      [] OTHER -> InvalidData(pos, "Invalid Value type")

\* BinValue::read
BinValue_read(bytes, pos) ==
    LET value_type_(name, value_type) ==
            IF value_type.st # "ok" THEN value_type
            ELSE Ok(value_type.pos, [name |-> name.v, value_type |-> value_type.v])
        name_(name) ==
            IF name.st # "ok" THEN name
            ELSE value_type_(name, read_value_type(bytes, name.pos, "tag"))
        header == name_(read_u32(bytes, pos, "name"))
    IN  IF header.st # "ok" THEN header
        ELSE read_value(bytes, header.pos, header.v.name, header.v.value_type)

\* an Optional reader that takes only the presence byte 1 as present
read_optional_only_1(bytes, pos) ==
    LET inner_(value_type, inner) ==
            IF inner.st # "ok" THEN inner
            ELSE Ok(inner.pos, <<value_type, <<inner.v>> >>)
        is_some_(value_type, is_some) ==
            IF is_some.st # "ok" THEN is_some
            ELSE Ok(is_some.pos, [value_type |-> value_type.v, is_some |-> is_some.v = 1])
        value_type_(value_type) ==
            IF value_type.st # "ok" THEN value_type
            ELSE is_some_(value_type, read_u8(bytes, value_type.pos, "is_some"))
        header == value_type_(read_value_type(bytes, pos, "opt_tag"))
    IN  IF header.st # "ok" THEN header
        ELSE IF header.v.is_some
        THEN inner_(header.v.value_type,
                    read_value(bytes, header.pos, 0, header.v.value_type))
        ELSE Ok(header.pos, <<header.v.value_type, <<>> >>)

\* an Optional reader that hands its payload the name 1
read_optional_named(bytes, pos) ==
    LET inner_(value_type, inner) ==
            IF inner.st # "ok" THEN inner
            ELSE Ok(inner.pos, <<value_type, <<inner.v>> >>)
        is_some_(value_type, is_some) ==
            IF is_some.st # "ok" THEN is_some
            ELSE Ok(is_some.pos, [value_type |-> value_type.v, is_some |-> is_some.v # 0])
        value_type_(value_type) ==
            IF value_type.st # "ok" THEN value_type
            ELSE is_some_(value_type, read_u8(bytes, value_type.pos, "is_some"))
        header == value_type_(read_value_type(bytes, pos, "opt_tag"))
    IN  IF header.st # "ok" THEN header
        ELSE IF header.v.is_some
        THEN inner_(header.v.value_type,
                    read_value(bytes, header.pos, 1, header.v.value_type))
        ELSE Ok(header.pos, <<header.v.value_type, <<>> >>)

\* BinValue::read_optional: <<value_type, Option>>
read_optional(bytes, pos) ==
    LET inner_(value_type, inner) ==
            IF inner.st # "ok" THEN inner
            ELSE Ok(inner.pos, <<value_type, <<inner.v>> >>)
        is_some_(value_type, is_some) ==
            IF is_some.st # "ok" THEN is_some
            ELSE Ok(is_some.pos, [value_type |-> value_type.v, is_some |-> is_some.v # 0])
        value_type_(value_type) ==
            IF value_type.st # "ok" THEN value_type
            ELSE is_some_(value_type, read_u8(bytes, value_type.pos, "is_some"))
        header == value_type_(read_value_type(bytes, pos, "opt_tag"))
    IN  IF header.st # "ok" THEN header
        ELSE IF header.v.is_some
        THEN inner_(header.v.value_type,
                    read_value(bytes, header.pos, 0, header.v.value_type))
        ELSE Ok(header.pos, <<header.v.value_type, <<>> >>)

\* for _ in 0..n { values.push(BinValue::read(reader)?) }
read_named_values(bytes, pos, n, values) ==
    LET v_(v) ==
            IF v.st # "ok" THEN v
            ELSE read_named_values(bytes, v.pos, n - 1, Append(values, v.v))
    IN  IF n = 0 THEN Ok(pos, values) ELSE v_(BinValue_read(bytes, pos))

\* BinStructure::read
BinStructure_read(bytes, pos) ==
    LET fields_(name, fields) ==
            IF fields.st # "ok" THEN fields
            ELSE Ok(fields.pos, BinStructure(name, fields.v))
        field_count_(name, field_count) ==
            IF field_count.st # "ok" THEN field_count
            ELSE Ok(field_count.pos, [name |-> name.v, field_count |-> field_count.v])
        size_(name, size) ==
            IF size.st # "ok" THEN size
            ELSE field_count_(name, read_u16(bytes, size.pos, "field_count"))
        name_(name) ==
            IF name.st # "ok" THEN name
            ELSE IF name.v = 0 THEN Ok(name.pos, [name |-> name.v, field_count |-> 0])
            ELSE size_(name, read_u32(bytes, name.pos, "size"))
        header == name_(read_u32(bytes, pos, "struct_name"))
    IN  IF header.st # "ok" THEN header
        ELSE IF header.v.name = 0 THEN Ok(header.pos, BinStructure(header.v.name, <<>>))
        ELSE fields_(header.v.name,
                     read_named_values(bytes, header.pos, header.v.field_count, <<>>))

\* for _ in 0..n { values.push(BinValue::read_value(0, value_type, reader)?) }
read_container_values(bytes, pos, value_type, n, values) ==
    LET v_(v) ==
            IF v.st # "ok" THEN v
            ELSE read_container_values(bytes, v.pos, value_type, n - 1, Append(values, v.v))
    IN  IF n = 0 THEN Ok(pos, values) ELSE v_(read_value(bytes, pos, 0, value_type))

\* BinContainer::read
BinContainer_read(bytes, pos) ==
    LET values_(value_type, values) ==
            IF values.st # "ok" THEN values
            ELSE Ok(values.pos, BinContainer(value_type, values.v))
        value_count_(value_type, value_count) ==
            IF value_count.st # "ok" THEN value_count
            ELSE Ok(value_count.pos,
                    [value_type |-> value_type.v, value_count |-> value_count.v])
        size_(value_type, size) ==
            IF size.st # "ok" THEN size
            ELSE value_count_(value_type, read_u32(bytes, size.pos, "elem_count"))
        value_type_(value_type) ==
            IF value_type.st # "ok" THEN value_type
            ELSE size_(value_type, read_u32(bytes, value_type.pos, "size"))
        header == value_type_(read_value_type(bytes, pos, "elem_tag"))
    IN  IF header.st # "ok" THEN header
        ELSE values_(header.v.value_type,
                     read_container_values(bytes, header.pos, header.v.value_type,
                                           header.v.value_count, <<>>))

\* for _ in 0..n { map.insert(read_value(0, key_type)?, read_value(0, value_type)?) }
read_map_entries(bytes, pos, key_type, value_type, n, map) ==
    LET v_(k, v) ==
            IF v.st # "ok" THEN v
            ELSE read_map_entries(bytes, v.pos, key_type, value_type, n - 1,
                                  HashMap_insert(map, k.v, v.v))
        k_(k) ==
            IF k.st # "ok" THEN k
            ELSE v_(k, read_value(bytes, k.pos, 0, value_type))
    IN  IF n = 0 THEN Ok(pos, map) ELSE k_(read_value(bytes, pos, 0, key_type))

\* BinMap::read
BinMap_read(bytes, pos) ==
    LET map_(key_type, value_type, map) ==
            IF map.st # "ok" THEN map
            ELSE Ok(map.pos, BinMap(key_type, value_type, map.v))
        entry_count_(key_type, value_type, entry_count) ==
            IF entry_count.st # "ok" THEN entry_count
            ELSE Ok(entry_count.pos, [key_type |-> key_type.v, value_type |-> value_type.v,
                                      entry_count |-> entry_count.v])
        size_(key_type, value_type, size) ==
            IF size.st # "ok" THEN size
            ELSE entry_count_(key_type, value_type, read_u32(bytes, size.pos, "pair_count"))
        value_type_(key_type, value_type) ==
            IF value_type.st # "ok" THEN value_type
            ELSE size_(key_type, value_type, read_u32(bytes, value_type.pos, "size"))
        key_type_(key_type) ==
            IF key_type.st # "ok" THEN key_type
            ELSE value_type_(key_type, read_value_type(bytes, key_type.pos, "val_tag"))
        header == key_type_(read_value_type(bytes, pos, "key_tag"))
    IN  IF header.st # "ok" THEN header
        ELSE map_(header.v.key_type, header.v.value_type,
                  read_map_entries(bytes, header.pos, header.v.key_type,
                                   header.v.value_type, header.v.entry_count, <<>>))

(* ------------------------- BinEntry, BinTree -------------------------- *)
BinEntry(class, path, values) == [class |-> class, path |-> path, values |-> values]
BinTree(dependencies, entries) == [dependencies |-> dependencies, entries |-> entries]

\* an entry reader that reads no value when the declared size is 0
BinEntry_read_sized(class, bytes, pos) ==
    LET values_(path, values) ==
            IF values.st # "ok" THEN values
            ELSE Ok(values.pos, BinEntry(class, path, values.v))
        value_count_(size, path, value_count) ==
            IF value_count.st # "ok" THEN value_count
            ELSE Ok(value_count.pos, [path |-> path.v,
                                      value_count |-> IF size.v = 0 THEN 0 ELSE value_count.v])
        path_(size, path) ==
            IF path.st # "ok" THEN path
            ELSE value_count_(size, path, read_u16(bytes, path.pos, "value_count"))
        size_(size) ==
            IF size.st # "ok" THEN size
            ELSE path_(size, read_u32(bytes, size.pos, "path"))
        header == size_(read_u32(bytes, pos, "entry_size"))
    IN  IF header.st # "ok" THEN header
        ELSE values_(header.v.path,
                     read_named_values(bytes, header.pos, header.v.value_count, <<>>))

\* BinEntry::read
BinEntry_read(class, bytes, pos) ==
    LET values_(path, values) ==
            IF values.st # "ok" THEN values
            ELSE Ok(values.pos, BinEntry(class, path, values.v))
        value_count_(path, value_count) ==
            IF value_count.st # "ok" THEN value_count
            ELSE Ok(value_count.pos, [path |-> path.v, value_count |-> value_count.v])
        path_(path) ==
            IF path.st # "ok" THEN path
            ELSE value_count_(path, read_u16(bytes, path.pos, "value_count"))
        size_(size) ==
            IF size.st # "ok" THEN size
            ELSE path_(read_u32(bytes, size.pos, "path"))
        header == size_(read_u32(bytes, pos, "entry_size"))
    IN  IF header.st # "ok" THEN header
        ELSE values_(header.v.path,
                     read_named_values(bytes, header.pos, header.v.value_count, <<>>))

RECURSIVE read_dependencies(_, _, _, _)
\* for _ in 0..dependency_count { read_u16 length; read_string(length) }
read_dependencies(bytes, pos, n, dependencies) ==
    LET d_(d) ==
            IF d.st # "ok" THEN d
            ELSE read_dependencies(bytes, d.pos, n - 1, Append(dependencies, d.v))
        length_(length) ==
            IF length.st # "ok" THEN length
            ELSE d_(read_string(bytes, length.pos, length.v, "dep"))
    IN  IF n = 0 THEN Ok(pos, dependencies) ELSE length_(read_u16(bytes, pos, "dep_len"))

RECURSIVE read_entry_classes(_, _, _, _)
\* for _ in 0..entry_count { entry_classes.push(reader.read_u32()?) }
read_entry_classes(bytes, pos, n, entry_classes) ==
    LET c_(c) ==
            IF c.st # "ok" THEN c
            ELSE read_entry_classes(bytes, c.pos, n - 1, Append(entry_classes, c.v))
    IN  IF n = 0 THEN Ok(pos, entry_classes) ELSE c_(read_u32(bytes, pos, "class"))

RECURSIVE read_entries(_, _, _, _, _)
\* entry bodies paired with the class identifiers in reverse
read_entries_reversed(bytes, pos, entry_classes, i, entries) ==
    LET e_(e) ==
            IF e.st # "ok" THEN e
            ELSE read_entries(bytes, e.pos, entry_classes, i + 1, Append(entries, e.v))
    IN  IF i > Len(entry_classes) THEN Ok(pos, entries)
        ELSE e_(BinEntry_read(entry_classes[Len(entry_classes) + 1 - i], bytes, pos))

\* for i in 0..entry_count { entries.push(BinEntry::read(entry_classes[i], reader)?) }
read_entries(bytes, pos, entry_classes, i, entries) ==
    LET e_(e) ==
            IF e.st # "ok" THEN e
            ELSE read_entries(bytes, e.pos, entry_classes, i + 1, Append(entries, e.v))
    IN  IF i > Len(entry_classes) THEN Ok(pos, entries)
        ELSE e_(BinEntry_read(entry_classes[i], bytes, pos))

PROP == <<80, 82, 79, 80>>

\* magic.as_str() != "PROP" (line 123), negated
magic_valid(magic) == magic = PROP

\* a version check with no upper limit
version_supported_any(version) == version >= 1

\* version != 1 && version != 2 (line 128), negated
version_supported(version) == version = 1 \/ version = 2

\* BinReader::read_tree up to the entry bodies (lines 122-146): magic,
\* version, dependencies and entry classes
read_tree_header(bytes) ==
    LET entry_classes_(dependencies, entry_classes) ==
            IF entry_classes.st # "ok" THEN entry_classes
            ELSE Ok(entry_classes.pos, [dependencies |-> dependencies.v,
                                        entry_classes |-> entry_classes.v])
        entry_count_(dependencies, entry_count) ==
            IF entry_count.st # "ok" THEN entry_count
            ELSE entry_classes_(dependencies,
                                read_entry_classes(bytes, entry_count.pos, entry_count.v, <<>>))
        dependencies_(dependencies) ==
            IF dependencies.st # "ok" THEN dependencies
            ELSE entry_count_(dependencies, read_u32(bytes, dependencies.pos, "entry_count"))
        dependency_count_(dependency_count) ==
            IF dependency_count.st # "ok" THEN dependency_count
            ELSE dependencies_(read_dependencies(bytes, dependency_count.pos,
                                                 dependency_count.v, <<>>))
        version_(version) ==
            IF version.st # "ok" THEN version
            ELSE IF ~version_supported(version.v)
            THEN InvalidData(version.pos, "Unsupported version")
            ELSE dependency_count_(IF version.v >= 2
                                   THEN read_u32(bytes, version.pos, "dep_count")
                                   ELSE Ok(version.pos, 0))
        magic_(magic) ==
            IF magic.st # "ok" THEN magic
            ELSE IF ~magic_valid(magic.v) THEN InvalidData(magic.pos, "Invalid magic")
            ELSE version_(read_u32(bytes, magic.pos, "version"))
    IN  magic_(read_string(bytes, 0, 4, "magic"))

\* BinReader::read_tree
read_tree(bytes) ==
    LET entries_(dependencies, entries) ==
            IF entries.st # "ok" THEN entries
            ELSE Ok(entries.pos, BinTree(dependencies, entries.v))
        header == read_tree_header(bytes)
    IN  IF header.st # "ok" THEN header
        ELSE entries_(header.v.dependencies,
                      read_entries(bytes, header.pos, header.v.entry_classes, 1, <<>>))

(* ------------------------- BinaryWriter ------------------------------- *)
\* Each write_* is given as the bytes it hands to the BufWriter.
write_i8(to_write)  == to_le_bytes(to_write, 1)
write_u8(to_write)  == to_le_bytes(to_write, 1)
write_i16(to_write) == to_le_bytes(to_write, 2)
write_u16(to_write) == to_le_bytes(to_write, 2)
write_i32(to_write) == to_le_bytes(to_write, 4)
write_u32(to_write) == to_le_bytes(to_write, 4)
write_f32(to_write) == to_le_bytes(to_write, 4)
\* a 64-bit value is held as <<low, high>>
write_i64(to_write) == to_le_bytes(to_write[1], 4) \o to_le_bytes(to_write[2], 4)
write_u64(to_write) == to_le_bytes(to_write[1], 4) \o to_le_bytes(to_write[2], 4)
\* to_write.as_bytes()
write_string(to_write) == to_write

\* a cast that keeps the low byte only
as_u8(x) == x % 256

\* `x as u16` of a usize
as_u16(x) == x % 65536

RECURSIVE write_f32_n(_)
\* Vector2/3/4::write and the Matrix44 loops of write_value
write_f32_n(fs) == IF fs = <<>> THEN <<>> ELSE write_f32(Head(fs)) \o write_f32_n(Tail(fs))

\* ColorRgba::write_rgba_u8 for LinSrgba
write_rgba_u8(c) ==
    write_u8(f32_mul_255_as_u8(c[1])) \o write_u8(f32_mul_255_as_u8(c[2]))
        \o write_u8(f32_mul_255_as_u8(c[3])) \o write_u8(f32_mul_255_as_u8(c[4]))

(* ------------------------- encoded sizes ------------------------------ *)
\* the BinStructure / BinContainer / BinMap a variant holds
structure_of(v) == BinStructure(v.struct_name, v.items)
container_of(v) == BinContainer(v.value_type, v.items)
map_of(v)       == BinMap(v.key_type, v.value_type, v.map)

RECURSIVE BinValue_size(_, _)
RECURSIVE BinStructure_content_size(_)
RECURSIVE BinContainer_content_size(_)
RECURSIVE BinMap_content_size(_)
RECURSIVE sum_sizes(_, _)
RECURSIVE BinStructure_size(_)
RECURSIVE BinContainer_size(_)
RECURSIVE BinMap_size(_)

\* for value in values { size += value.size(is_simple) }
sum_sizes(values, is_simple) ==
    IF values = <<>> THEN 0
    ELSE BinValue_size(Head(values), is_simple) + sum_sizes(Tail(values), is_simple)

\* BinStructure::content_size
BinStructure_content_size(self) == 2 + sum_sizes(self.fields, FALSE)

\* a size that leaves out the content-length field
BinStructure_size_no_length(self) ==
    IF self.name = 0 THEN 4 ELSE 4 + BinStructure_content_size(self)

\* BinStructure::size
BinStructure_size(self) ==
    IF self.name = 0 THEN 4 ELSE 4 + 4 + BinStructure_content_size(self)

\* a content size that leaves out the element count
BinContainer_content_size_no_count(self) == sum_sizes(self.values, TRUE)

\* BinContainer::content_size
BinContainer_content_size(self) == 4 + sum_sizes(self.values, TRUE)

\* a container size that leaves out the element tag
BinContainer_size_no_tag(self) == 4 + BinContainer_content_size(self)

\* BinContainer::size
BinContainer_size(self) == 1 + 4 + BinContainer_content_size(self)

RECURSIVE sum_pair_sizes(_)
\* for (key, value) in &self.map { size += key.size(true) + value.size(true) }
sum_pair_sizes(map) ==
    IF map = <<>> THEN 0
    ELSE BinValue_size(Head(map).key, TRUE) + BinValue_size(Head(map).value, TRUE)
            + sum_pair_sizes(Tail(map))

\* BinMap::content_size
BinMap_content_size(self) == 4 + sum_pair_sizes(self.map)

\* BinMap::size
BinMap_size(self) == 1 + 1 + 4 + BinMap_content_size(self)

\* BinValue::size
BinValue_size(self, is_simple) ==
    (IF is_simple THEN 0 ELSE 5)
    + CASE self.kind = None -> 0
        [] self.kind \in {Boolean, SByte, Byte, FlagsBoolean} -> 1
        [] self.kind \in {Int16, UInt16} -> 2
        [] self.kind \in {Int32, UInt32, Float, Hash, Link} -> 4
        [] self.kind \in {Int64, UInt64} -> 8
        [] self.kind = Vector2 -> 8
        [] self.kind = Vector3 -> 12
        [] self.kind = Vector4 -> 16
        [] self.kind = Matrix44 -> 64
        [] self.kind = Color -> 4
        [] self.kind = String -> Len(self.value) + 2
        [] self.kind \in {Container, Container2} -> BinContainer_size(container_of(self))
        [] self.kind \in {Structure, Embedded} -> BinStructure_size(structure_of(self))
        [] self.kind = Optional ->
              2 + (IF self.items # <<>> THEN BinValue_size(self.items[1], TRUE) ELSE 0)
        [] self.kind = Map -> BinMap_size(map_of(self))

\* an entry size that counts the values without their name and tag
BinEntry_size_bare(self) == 6 + sum_sizes(self.values, TRUE)

\* BinEntry::size
BinEntry_size(self) == 6 + sum_sizes(self.values, FALSE)

(* ------------------------- encoding ----------------------------------- *)
\* a kind accessor that folds the second revisions into the first
value_type_folded(self) ==
    CASE self.kind = Container2 -> Container
      [] self.kind = Embedded -> Structure
      [] OTHER -> self.kind

\* BinValue::value_type
value_type(self) == self.kind

RECURSIVE BinValue_write(_)
RECURSIVE write_value(_)
RECURSIVE BinStructure_write(_)
RECURSIVE BinContainer_write(_)
RECURSIVE BinMap_write(_)
RECURSIVE write_named_values(_)
RECURSIVE write_bare_values(_)
RECURSIVE write_map_entries(_)

\* for value in values { value.write(writer)? }
write_named_values(values) ==
    IF values = <<>> THEN <<>>
    ELSE BinValue_write(Head(values)) \o write_named_values(Tail(values))

\* for value in &self.values { value.write_value(writer)? }
write_bare_values(values) ==
    IF values = <<>> THEN <<>>
    ELSE write_value(Head(values)) \o write_bare_values(Tail(values))

\* for (key, value) in &self.map { key.write_value; value.write_value }
write_map_entries(map) ==
    IF map = <<>> THEN <<>>
    ELSE write_value(Head(map).key) \o write_value(Head(map).value)
            \o write_map_entries(Tail(map))

\* a structure written with its length and field count whatever its name
BinStructure_write_with_count(self) ==
    write_u32(self.name)
    \o write_u32(BinStructure_content_size(self))
    \o write_u16(as_u16(Len(self.fields)))
    \o write_named_values(self.fields)

\* BinStructure::write
BinStructure_write(self) ==
    write_u32(self.name)
    \o (IF self.name # 0
        THEN write_u32(BinStructure_content_size(self))
             \o write_u16(as_u16(Len(self.fields)))
             \o write_named_values(self.fields)
        ELSE <<>>)

\* a container written without its element count
BinContainer_write_no_count(self) ==
    write_u8(pack_value_type(self.value_type))
    \o write_u32(BinContainer_content_size(self))
    \o write_bare_values(self.values)

\* BinContainer::write
BinContainer_write(self) ==
    write_u8(pack_value_type(self.value_type))
    \o write_u32(BinContainer_content_size(self))
    \o write_u32(Len(self.values))
    \o write_bare_values(self.values)

\* BinMap::write
BinMap_write(self) ==
    write_u8(pack_value_type(self.key_type))
    \o write_u8(pack_value_type(self.value_type))
    \o write_u32(BinMap_content_size(self))
    \o write_u32(Len(self.map))
    \o write_map_entries(self.map)

\* BinValue::write_value
write_value(self) ==
    CASE self.kind = None -> <<>>
      [] self.kind \in {Boolean, FlagsBoolean, Byte} -> write_u8(self.value[1])
      [] self.kind = SByte  -> write_i8(self.value[1])
      [] self.kind = Int16  -> write_i16(self.value[1])
      [] self.kind = UInt16 -> write_u16(self.value[1])
      [] self.kind = Int32  -> write_i32(self.value[1])
      [] self.kind = UInt32 -> write_u32(self.value[1])
      [] self.kind = Int64  -> write_i64(self.value)
      [] self.kind = UInt64 -> write_u64(self.value)
      [] self.kind = Float  -> write_f32(self.value[1])
      [] self.kind \in {Vector2, Vector3, Vector4, Matrix44} -> write_f32_n(self.value)
      [] self.kind = Color  -> write_rgba_u8(self.value)
      [] self.kind = String ->
            write_u16(as_u16(Len(self.value))) \o write_string(self.value)
      [] self.kind \in {Hash, Link} -> write_u32(self.value[1])
      [] self.kind \in {Container, Container2} -> BinContainer_write(container_of(self))
      [] self.kind \in {Structure, Embedded} -> BinStructure_write(structure_of(self))
      [] self.kind = Optional ->
            write_u8(pack_value_type(self.value_type))
            \o write_u8(IF self.items # <<>> THEN 1 ELSE 0)
            \o (IF self.items # <<>> THEN write_value(self.items[1]) ELSE <<>>)
      [] self.kind = Map -> BinMap_write(map_of(self))

\* BinValue::write
BinValue_write(self) ==
    write_u32(self.name) \o write_u8(pack_value_type(value_type(self))) \o write_value(self)

\* an entry written with its path before its size
BinEntry_write_path_first(self) ==
    write_u32(self.path)
    \o write_u32(BinEntry_size(self))
    \o write_u16(as_u16(Len(self.values)))
    \o write_named_values(self.values)

\* an entry written with a byte of padding after its values
BinEntry_write_padded(self) ==
    write_u32(BinEntry_size(self))
    \o write_u32(self.path)
    \o write_u16(as_u16(Len(self.values)))
    \o write_named_values(self.values)
    \o <<0>>

\* BinEntry::write
BinEntry_write(self) ==
    write_u32(BinEntry_size(self))
    \o write_u32(self.path)
    \o write_u16(as_u16(Len(self.values)))
    \o write_named_values(self.values)

(* ------------------------- BinWriter::write_tree, by step ------------- *)
\* a header that carries version 1
write_tree_header_version_1(tree) ==
    write_string(PROP) \o write_u32(1) \o write_u32(Len(tree.dependencies))

\* writer.write_string("PROP")?; writer.write_u32(2)?;
\* writer.write_u32(tree.dependencies().len() as u32)?
write_tree_header(tree) ==
    write_string(PROP) \o write_u32(2) \o write_u32(Len(tree.dependencies))

\* writer.write_u16(dependency.len() as u16)?; writer.write_string(dependency)?
write_dependency(dependency) ==
    write_u16(as_u16(Len(dependency))) \o write_string(dependency)

(* ------------------------- the buffered sink -------------------------- *)
\* A BinaryWriter is [buf, sink, room]: the bytes its BufWriter holds, the
\* bytes that reached the sink under it, and the room left on the sink's
\* device (below 0: a sink that never runs out, as a Cursor<Vec<u8>>).

\* BufWriter::new(sink): the capacity of the buffer
BufCapacity == 8192

\* Write::write of the sink: the number of bytes of bs it takes
taken(room, bs) == IF room < 0 \/ Len(bs) <= room THEN Len(bs) ELSE room

\* BufWriter::flush_buf: the buffer goes to the sink until it is empty or the
\* sink refuses; what the sink took leaves the buffer
flush_buf(self) ==
    [w |-> [buf |-> SubSeq(self.buf, taken(self.room, self.buf) + 1, Len(self.buf)),
            sink |-> self.sink \o SubSeq(self.buf, 1, taken(self.room, self.buf)),
            room |-> IF self.room < 0 THEN self.room
                     ELSE self.room - taken(self.room, self.buf)],
     err |-> taken(self.room, self.buf) < Len(self.buf)]

\* self.writer.write(bs) of BinaryWriter::write_*: BufWriter::write.  bs is
\* kept in the buffer when it fits; else the buffer is flushed first, and a
\* bs of the capacity or more goes to the sink directly, where the count of
\* bytes taken that write returns is dropped by the caller's `?`.
BufWriter_write(self, bs) ==
    LET spare == BufCapacity - Len(self.buf)
        flushed == IF Len(bs) > spare THEN flush_buf(self) ELSE [w |-> self, err |-> FALSE]
    IN  IF Len(bs) < spare THEN [w |-> [self EXCEPT !.buf = @ \o bs], err |-> FALSE]
        ELSE IF flushed.err THEN flushed
        ELSE IF Len(bs) >= BufCapacity
        THEN [w |-> [flushed.w EXCEPT
                        !.sink = @ \o SubSeq(bs, 1, taken(flushed.w.room, bs)),
                        !.room = IF @ < 0 THEN @ ELSE @ - taken(flushed.w.room, bs)],
              err |-> flushed.w.room = 0]
        ELSE [w |-> [flushed.w EXCEPT !.buf = @ \o bs], err |-> FALSE]

\* the BinaryWriter of write_tree_file / write_tree_buffer goes out of scope:
\* BufWriter's drop flushes the buffer and discards the result
BufWriter_drop(self) == flush_buf(self).w

(* ------------------------- HashMap iteration order -------------------- *)
\* A HashMap iterates in an order fixed by its (randomly seeded) hasher: a
\* decoded map may come out in any order.  Orders(v) is v with every map in
\* each of its possible iteration orders.
RECURSIVE Orders(_)
RECURSIVE SeqOrders(_)
RECURSIVE PairOrders(_)

SeqOrders(values) ==
    IF values = <<>> THEN {<<>>}
    ELSE {<<h>> \o t : h \in Orders(Head(values)), t \in SeqOrders(Tail(values))}

PairOrders(map) ==
    IF map = <<>> THEN {<<>>}
    ELSE {<<[key |-> k, value |-> v]>> \o t :
             k \in Orders(Head(map).key), v \in Orders(Head(map).value),
             t \in PairOrders(Tail(map))}

Orders(v) ==
    {[v EXCEPT !.items = items, !.map = [i \in 1..Len(map) |-> map[p[i]]]] :
        items \in SeqOrders(v.items), map \in PairOrders(v.map),
        p \in Permutations(1..Len(v.map))}

RECURSIVE EntryOrders(_)
EntryOrders(entries) ==
    IF entries = <<>> THEN {<<>>}
    ELSE {<<[Head(entries) EXCEPT !.values = vs]>> \o t :
             vs \in SeqOrders(Head(entries).values), t \in EntryOrders(Tail(entries))}

TreeOrders(tree) == {[tree EXCEPT !.entries = es] : es \in EntryOrders(tree.entries)}

(* ------------------------- input streams ------------------------------ *)
\* The input of read_tree is any byte stream.  It is enumerated field by
\* field: when read_tree(input) stops for lack of bytes, the field it was
\* about to read is appended, with each of the values listed here for it.
\* A profile is one family of streams.
Profiles == {"header", "entries", "scalar", "color", "nest", "map", "scenario"}

\* the bound: bytes of a stream beyond the least its profile needs
MaxBytes == 24
Limit(p) ==
    CASE p = "header"  -> MaxBytes + 14
      [] p = "entries" -> MaxBytes + 38
      [] p = "scalar"  -> MaxBytes + 7 + 64
      [] p = "color"   -> MaxBytes + 11
      [] p = "nest"    -> MaxBytes + 26
      [] p = "map"     -> MaxBytes + 29
      [] p = "scenario" -> MaxBytes + 43

\* the room on the device write_tree_file writes to
Rooms(p) == IF p \in {"scenario", "header"} THEN {-1, 0, 10} ELSE {-1}

\* the stream of profile "scenario": magic, version 2, one dependency
\* "DependencyModule", one entry of class 0x1234 with size field 25, path
\* 0x5678 and two values: Int32 named 1 of value 42, String named 2 "abc"
ScenarioStream ==
    <<80, 82, 79, 80>> \o <<2, 0, 0, 0>> \o <<1, 0, 0, 0>>
    \o <<16, 0>> \o <<68, 101, 112, 101, 110, 100, 101, 110, 99, 121, 77, 111, 100, 117, 108, 101>>
    \o <<1, 0, 0, 0>> \o <<52, 18, 0, 0>>
    \o <<25, 0, 0, 0>> \o <<120, 86, 0, 0>> \o <<2, 0>>
    \o <<1, 0, 0, 0>> \o <<6>> \o <<42, 0, 0, 0>>
    \o <<2, 0, 0, 0>> \o <<16>> \o <<3, 0>> \o <<97, 98, 99>>

PROQ    == <<80, 82, 79, 81>>
NotUtf8 == <<80, 82, 79, 255>>

\* tag bytes: the 18 kinds of the first revision, Link and FlagsBoolean
ScalarTags == 0..17 \cup {128 + 4, 128 + 7}
\* bytes that unpack to no kind
BadTags    == {26, 127, 136, 200}
\* Container, Container2, Structure, Embedded, Optional, Byte, and 18, which
\* is Container without the top bit
NestTags   == {128, 129, 130, 131, 128 + 5, 3, 18}
ElemTags   == {129, 130, 128 + 5, 3, 19}
InnerTags  == {128, 131, 128 + 5, 3, 200}
\* Boolean, String, Hash; Float, None, Vector2
KeyTags    == {1, 16, 17, 10, 0, 11}

\* the values enumerated for an integer field
Values(p, what, w, at) ==
    CASE what = "version"     -> IF p = "header" THEN {1, 2, 3} ELSE {1}
      [] what = "dep_count"   -> {0, 1, 2}
      [] what = "dep_len"     -> {0, 1, 2}
      [] what = "entry_count" -> IF p = "header" THEN {0, 1}
                                 ELSE IF p = "entries" THEN {0, 1, 2} ELSE {1}
      [] what = "class"       -> IF p = "entries" THEN {4660, 7} ELSE {7}
      [] what = "entry_size"  -> IF p = "entries" THEN {0, 11} ELSE {0}
      [] what = "path"        -> {22136}
      [] what = "value_count" -> IF p = "header" THEN {0}
                                 ELSE IF p = "entries" THEN {0, 2} ELSE {1}
      [] what = "name"        -> {513}
      [] what = "tag"         -> (CASE p = "entries" -> {0, 1}
                                    [] p = "scalar" -> ScalarTags \cup BadTags
                                    [] p = "color"  -> {15}
                                    [] p = "nest"   -> NestTags \cup {200}
                                    [] p = "map"    -> {128 + 6}
                                    [] OTHER        -> {0})
      [] what = "elem_tag"    -> ElemTags
      [] what = "opt_tag"     -> InnerTags
      [] what = "key_tag"     -> KeyTags \cup {200}
      [] what = "val_tag"     -> {3, 131}
      [] what = "bool"        -> IF p = "entries" THEN {2} ELSE {0, 1, 2}
      [] what = "is_some"     -> {0, 2}
      [] what = "uint"        -> IF w = 1 THEN {5, 200} ELSE {513}
      [] what = "sint"        -> IF w = 1 THEN {5, 200 - 256} ELSE {513, 0 - 2}
      [] what = "float"       -> {1065353216, 2143289344}       \* 1.0, NaN
      [] what = "floats"      -> {1065353216}
         \* every byte for the red channel, 255 for the others
      [] what = "color"       -> IF p = "color"
                                 THEN (IF at = 31 THEN 0..255 ELSE {255})
                                 ELSE {127}
      [] what = "str_len"     -> IF p = "map" THEN {3} ELSE {0, 2}
      [] what = "hash"        -> {1, 67305985}
      [] what = "size"        -> IF p = "map" THEN {0, 100} ELSE {0}
      [] what = "struct_name" -> {0, 9}
      [] what = "field_count" -> {0, 1, 2}
      [] what = "elem_count"  -> {0, 1, 2}
      [] what = "pair_count"  -> {0, 1, 2}

\* the texts enumerated for a string field of n bytes
Texts(p, what, n) ==
    CASE what = "magic" -> IF p = "header" THEN {PROP, PROQ, NotUtf8} ELSE {PROP}
      [] what # "magic" /\ n = 1 -> {<<97>>, <<255>>}
      [] what # "magic" /\ n = 2 -> {<<195, 169>>, <<97, 195>>}    \* "e-acute", ill-formed
      [] what # "magic" /\ n = 3 -> {<<70, 111, 111>>, <<102, 111, 111>>}   \* "Foo", "foo"
      [] OTHER -> {[i \in 1..n |-> 97]}

\* the byte sequences enumerated for the field of w bytes that read_tree
\* wants at position `at`
Fields(p, what, w, at) ==
    IF p = "scenario"
    THEN (IF at + w <= Len(ScenarioStream) THEN {SubSeq(ScenarioStream, at + 1, at + w)} ELSE {})
    ELSE IF what \in {"magic", "dep", "str"} THEN Texts(p, what, w)
    ELSE IF w = 8 THEN {to_le_bytes(67305985, 4) \o to_le_bytes(v, 4) : v \in Values(p, what, w, at)}
    ELSE {to_le_bytes(v, w) : v \in Values(p, what, w, at)}

(* ------------------------- state -------------------------------------- *)
VARIABLES
    profile,    \* the family of input streams explored
    input,      \* the bytes of the stream given to read_tree
    closed,     \* the stream was cut inside a field: nothing more is appended
    pc,         \* "feed", then "failed", or the writer's position, "written", "done"
    decoded,    \* the result of read_tree(input)
    tree,       \* the BinTree read_tree returned, handed to write_tree
    wi,         \* index of the dependency / entry the writer is at
    output,     \* the bytes write_tree has emitted
    redecoded,  \* the result of read_tree on what the sink holds
    writer,     \* the BinaryWriter write_tree writes to, with its sink
    calls,      \* two calls in progress at once, each with its reader and writer
    tag_pc,     \* the type-tag codec on its own: "idle", or the call made last
    tag_byte,   \* a wire tag
    tag_kind,   \* the result of unpack_value_type, or a BinValueType
    tag_arg,    \* the byte or kind the codec was first called with
    run,        \* one read_tree call taken a read at a time: bytes, pos, pending loops
    run_steps   \* the steps that call has taken

tvars == <<tag_pc, tag_byte, tag_kind, tag_arg>>
vars == <<profile, input, closed, pc, decoded, tree, wi, output, redecoded, writer, tvars, calls, run, run_steps>>

NoResult == [st |-> "none", pos |-> 0, v |-> <<>>, want |-> 0, what |-> "", msg |-> ""]
\* no read_tree call is being followed
NoRun == [pc |-> "idle", bytes |-> <<>>, pos |-> 0, stack |-> <<>>, deepest |-> 0, result |-> NoResult]

Init ==
    /\ profile \in Profiles
    /\ input = <<>>
    /\ closed = FALSE
    /\ pc = "feed"
    /\ decoded = NoResult
    /\ tree = BinTree(<<>>, <<>>)
    /\ wi = 0
    /\ output = <<>>
    /\ redecoded = NoResult
    /\ writer \in {[buf |-> <<>>, sink |-> <<>>, room |-> r] : r \in Rooms(profile)}
    /\ calls = <<>>
    /\ run = NoRun
    /\ run_steps = 0
    /\ tag_pc = "idle"
    /\ tag_byte = 0
    /\ tag_kind = NoResult
    /\ tag_arg = 0

\* what read_tree lacks on the input so far
Demand == read_tree(input)

\* the environment appends the next field of the stream
Feed ==
    /\ pc = "feed" /\ ~closed
    /\ LET field_(d) ==
               /\ d.st = "eof"
               /\ \E f \in Fields(profile, d.what, d.want, d.pos) :
                     /\ Len(input) + Len(f) <= Limit(profile)
                     /\ input' = input \o f
       IN  field_(Demand)
    /\ UNCHANGED <<profile, closed, pc, decoded, tree, wi, output, redecoded, writer, tvars, calls, run, run_steps>>

\* the stream ends inside the next field: after its first byte, or before
\* its last
Truncate ==
    /\ pc = "feed" /\ ~closed
    /\ LET part_(d, f) ==
               \E k \in {1, d.want - 1} :
                   /\ k >= 1 /\ k < d.want
                   /\ Len(input) + k <= Limit(profile)
                   /\ input' = input \o SubSeq(f, 1, k)
           field_(d) ==
               /\ d.st = "eof"
               /\ part_(d, CHOOSE f \in Fields(profile, d.what, d.want, d.pos) : TRUE)
       IN  field_(Demand)
    /\ closed' = TRUE
    /\ UNCHANGED <<profile, pc, decoded, tree, wi, output, redecoded, writer, tvars, calls, run, run_steps>>

\* BinReader::read_tree on the stream as it stands.  An Ok(tree) is handed
\* on with its maps in one of their iteration orders.
ReadTree ==
    /\ pc = "feed"
    /\ decoded' = read_tree(input)
    /\ IF decoded'.st = "ok"
       THEN /\ tree' \in TreeOrders(decoded'.v)
            /\ pc' = "write_header"
       ELSE /\ tree' = tree
            /\ pc' = "failed"
    /\ UNCHANGED <<profile, input, closed, wi, output, redecoded, writer, tvars, calls, run, run_steps>>

\* a step that puts its bytes in front of what was written
WriteStep_in_front(bs, next) ==
    /\ output' = bs \o output
    /\ pc' = IF BufWriter_write(writer, bs).err THEN "write_failed" ELSE next
    /\ writer' = IF BufWriter_write(writer, bs).err \/ next = "written"
                 THEN BufWriter_drop(BufWriter_write(writer, bs).w)
                 ELSE BufWriter_write(writer, bs).w

\* one step of write_tree_file: bs goes to the writer.  When the writer
\* returns an error `?` returns it, and after the last step Ok(()) is
\* returned: either way the BinaryWriter is dropped on the way out.
WriteStep(bs, next) ==
    /\ output' = output \o bs
    /\ pc' = IF BufWriter_write(writer, bs).err THEN "write_failed" ELSE next
    /\ writer' = IF BufWriter_write(writer, bs).err \/ next = "written"
                 THEN BufWriter_drop(BufWriter_write(writer, bs).w)
                 ELSE BufWriter_write(writer, bs).w

\* BinWriter::write_tree, lines 168-171
WriteHeader ==
    /\ pc = "write_header"
    /\ WriteStep(write_tree_header(tree), "write_dependencies")
    /\ wi' = 1
    /\ UNCHANGED <<profile, input, closed, decoded, tree, redecoded, tvars, calls, run, run_steps>>

\* one turn of the loop of lines 172-175
WriteDependency ==
    /\ pc = "write_dependencies"
    /\ wi <= Len(tree.dependencies)
    /\ WriteStep(write_dependency(tree.dependencies[wi]), pc)
    /\ wi' = wi + 1
    /\ UNCHANGED <<profile, input, closed, decoded, tree, redecoded, tvars, calls, run, run_steps>>

\* line 177, once the dependencies are written
WriteEntryCount ==
    /\ pc = "write_dependencies"
    /\ wi > Len(tree.dependencies)
    /\ WriteStep(write_u32(Len(tree.entries)),
                 IF tree.entries = <<>> THEN "written" ELSE "write_classes")
    /\ wi' = 1
    /\ UNCHANGED <<profile, input, closed, decoded, tree, redecoded, tvars, calls, run, run_steps>>

\* one turn of the loop of lines 178-180
WriteClass ==
    /\ pc = "write_classes"
    /\ WriteStep(write_u32(tree.entries[wi].class),
                 IF wi = Len(tree.entries) THEN "write_entries" ELSE pc)
    /\ wi' = IF wi = Len(tree.entries) THEN 1 ELSE wi + 1
    /\ UNCHANGED <<profile, input, closed, decoded, tree, redecoded, tvars, calls, run, run_steps>>

\* one turn of the loop of lines 181-183; after the last, Ok(()) (line 185)
WriteEntry ==
    /\ pc = "write_entries"
    /\ WriteStep(BinEntry_write(tree.entries[wi]),
                 IF wi = Len(tree.entries) THEN "written" ELSE pc)
    /\ wi' = IF wi = Len(tree.entries) THEN wi ELSE wi + 1
    /\ UNCHANGED <<profile, input, closed, decoded, tree, redecoded, tvars, calls, run, run_steps>>

\* BinReader::read_tree_file on the file write_tree_file wrote, on a device
\* with room (test_bin)
ReadBack ==
    /\ pc = "written"
    /\ writer.room < 0
    /\ redecoded' = read_tree(writer.sink)
    /\ pc' = "done"
    /\ UNCHANGED <<profile, input, closed, decoded, tree, wi, output, writer, tvars, calls, run, run_steps>>

Next ==
    \/ Feed
    \/ Truncate
    \/ ReadTree
    \/ WriteHeader
    \/ WriteDependency
    \/ WriteEntryCount
    \/ WriteClass
    \/ WriteEntry
    \/ ReadBack

Spec == Init /\ [][Next]_vars

(* ------------------------- the type-tag codec alone ------------------- *)
\* unpack_value_type on any byte, pack_value_type on any kind, and each on
\* the result of the other
InitTag ==
    /\ profile = "header"
    /\ input = <<>>
    /\ closed = FALSE
    /\ pc = "idle"
    /\ decoded = NoResult
    /\ tree = BinTree(<<>>, <<>>)
    /\ wi = 0
    /\ output = <<>>
    /\ redecoded = NoResult
    /\ writer = [buf |-> <<>>, sink |-> <<>>, room |-> -1]
    /\ calls = <<>>
    /\ run = NoRun
    /\ run_steps = 0
    /\ \/ tag_pc = "byte" /\ tag_byte \in 0..255 /\ tag_kind = NoResult /\ tag_arg = tag_byte
       \/ tag_pc = "kind" /\ tag_byte = 0 /\ tag_arg \in BinValueType /\ tag_kind = Ok(0, tag_arg)

mvars == <<profile, input, closed, pc, decoded, tree, wi, output, redecoded, writer>>

\* BinValue::unpack_value_type(tag_byte)
Unpack ==
    /\ tag_pc \in {"byte", "packed"}
    /\ tag_kind' = unpack_value_type(tag_byte)
    /\ tag_pc' = IF tag_pc = "byte" THEN "unpacked" ELSE "pack_unpack"
    /\ UNCHANGED <<tag_byte, tag_arg, mvars, calls, run, run_steps>>

\* BinValue::pack_value_type(tag_kind)
Pack ==
    /\ tag_pc \in {"kind", "unpacked"}
    /\ tag_kind.st = "ok"
    /\ tag_byte' = pack_value_type(tag_kind.v)
    /\ tag_pc' = IF tag_pc = "kind" THEN "packed" ELSE "unpack_pack"
    /\ UNCHANGED <<tag_kind, tag_arg, mvars, calls, run, run_steps>>

NextTag ==
    \/ Unpack
    \/ Pack

SpecTag == InitTag /\ [][NextTag]_vars

(* ------------------------- two calls at once -------------------------- *)
\* Two callers, each decoding its own stream with read_tree and encoding the
\* tree it got with write_tree_buffer, their steps interleaved.  A call is
\* [reader, writer, pc, i, dependencies, entry_classes, entries, result]:
\* the BinaryReader and BinaryWriter it was given and the locals of
\* read_tree / write_tree.

\* the streams the two callers hold: the scenario, the scenario cut inside
\* its second value, an empty version-1 tree, and a stream with a bad magic
PairStreams ==
    { ScenarioStream,
      SubSeq(ScenarioStream, 1, 60),
      PROP \o <<1, 0, 0, 0>> \o <<0, 0, 0, 0>>,
      [ScenarioStream EXCEPT ![4] = 81] }

\* a call before its first step
NewCall(stream) ==
    [reader |-> [bytes |-> stream, pos |-> 0],
     writer |-> [buf |-> <<>>, sink |-> <<>>, room |-> -1],
     pc |-> "read_header", i |-> 0,
     dependencies |-> <<>>, entry_classes |-> <<>>, entries |-> <<>>,
     result |-> NoResult]

\* a single reader and writer used by every call
stream_of_first(c) == 1

\* reader: &mut BinaryReader<R>, writer: &mut BinaryWriter<W>: a call works
\* on the reader and the writer it was given, and on nothing else
stream_of(c) == c

InitPair ==
    /\ profile = "header"
    /\ input = <<>>
    /\ closed = FALSE
    /\ pc = "idle"
    /\ decoded = NoResult
    /\ tree = BinTree(<<>>, <<>>)
    /\ wi = 0
    /\ output = <<>>
    /\ redecoded = NoResult
    /\ writer = [buf |-> <<>>, sink |-> <<>>, room |-> -1]
    /\ tag_pc = "idle"
    /\ tag_byte = 0
    /\ tag_kind = NoResult
    /\ tag_arg = 0
    /\ calls \in {<<NewCall(s), NewCall(t)>> : s \in PairStreams, t \in PairStreams}
    /\ run = NoRun
    /\ run_steps = 0

\* read_tree of call c, lines 122-146
PairReadHeader(c) ==
    /\ calls[c].pc = "read_header"
    /\ LET header_(header) ==
               IF header.st # "ok"
               THEN calls' = [calls EXCEPT ![stream_of(c)].reader.pos = header.pos,
                                           ![c].result = header,
                                           ![c].pc = "returned"]
               ELSE calls' = [calls EXCEPT ![stream_of(c)].reader.pos = header.pos,
                                           ![c].dependencies = header.v.dependencies,
                                           ![c].entry_classes = header.v.entry_classes,
                                           ![c].i = 1,
                                           ![c].pc = "read_entries"]
       IN  header_(read_tree_header(calls[stream_of(c)].reader.bytes))
    /\ UNCHANGED <<mvars, tvars, run, run_steps>>

\* read_tree of call c: one turn of the loop of lines 148-150, or Ok(BinTree)
\* after the last (lines 152-155)
PairReadEntry(c) ==
    /\ calls[c].pc = "read_entries"
    /\ LET entry_(entry) ==
               IF entry.st # "ok"
               THEN calls' = [calls EXCEPT ![stream_of(c)].reader.pos = entry.pos,
                                           ![c].result = entry,
                                           ![c].pc = "returned"]
               ELSE calls' = [calls EXCEPT ![stream_of(c)].reader.pos = entry.pos,
                                           ![c].entries = Append(@, entry.v),
                                           ![c].i = @ + 1]
       IN  IF calls[c].i > Len(calls[c].entry_classes)
           THEN calls' = [calls EXCEPT
                             ![c].result = Ok(calls[stream_of(c)].reader.pos,
                                              BinTree(calls[c].dependencies, calls[c].entries)),
                             ![c].i = 1,
                             ![c].pc = "write_header"]
           ELSE entry_(BinEntry_read(calls[c].entry_classes[calls[c].i],
                                     calls[stream_of(c)].reader.bytes,
                                     calls[stream_of(c)].reader.pos))
    /\ UNCHANGED <<mvars, tvars, run, run_steps>>

\* the next write of write_tree(tree) at position `at`, index i: its bytes,
\* and the position and index after it (lines 168-185)
write_tree_step(t, at, i) ==
    CASE at = "write_header" ->
            [bs |-> write_tree_header(t), next |-> "write_dependencies", i |-> 1]
      [] at = "write_dependencies" /\ i <= Len(t.dependencies) ->
            [bs |-> write_dependency(t.dependencies[i]), next |-> at, i |-> i + 1]
      [] at = "write_dependencies" /\ i > Len(t.dependencies) ->
            [bs |-> write_u32(Len(t.entries)),
             next |-> IF t.entries = <<>> THEN "written" ELSE "write_classes", i |-> 1]
      [] at = "write_classes" ->
            [bs |-> write_u32(t.entries[i].class),
             next |-> IF i = Len(t.entries) THEN "write_entries" ELSE at,
             i |-> IF i = Len(t.entries) THEN 1 ELSE i + 1]
      [] at = "write_entries" ->
            [bs |-> BinEntry_write(t.entries[i]),
             next |-> IF i = Len(t.entries) THEN "written" ELSE at,
             i |-> IF i = Len(t.entries) THEN i ELSE i + 1]

\* write_tree_buffer of call c on the tree its read_tree returned: one write,
\* and the drop of the BinaryWriter after the last
PairWrite(c) ==
    /\ calls[c].pc \in {"write_header", "write_dependencies", "write_classes", "write_entries"}
    /\ LET step_(step) ==
               calls' = [calls EXCEPT
                   ![stream_of(c)].writer =
                       IF BufWriter_write(@, step.bs).err \/ step.next = "written"
                       THEN BufWriter_drop(BufWriter_write(@, step.bs).w)
                       ELSE BufWriter_write(@, step.bs).w,
                   ![c].pc = IF BufWriter_write(calls[stream_of(c)].writer, step.bs).err
                             THEN "write_failed" ELSE step.next,
                   ![c].i = step.i]
       IN  step_(write_tree_step(calls[c].result.v, calls[c].pc, calls[c].i))
    /\ UNCHANGED <<mvars, tvars, run, run_steps>>

NextPair ==
    \/ \E c \in 1..2 : PairReadHeader(c)
    \/ \E c \in 1..2 : PairReadEntry(c)
    \/ \E c \in 1..2 : PairWrite(c)

SpecPair == InitPair /\ [][NextPair]_vars

(* ------------------------- properties --------------------------------- *)
\* read_tree returned Ok(tree): the tree is with the writer
Returned == pc \notin {"feed", "failed", "idle"}

RECURSIVE SubValues(_)
\* a value node and every node nested in it
SubValues(v) ==
    {v} \cup UNION {SubValues(v.items[i]) : i \in 1..Len(v.items)}
        \cup UNION {SubValues(v.map[i].key) \cup SubValues(v.map[i].value) : i \in 1..Len(v.map)}

EntryValues(e) == UNION {SubValues(e.values[j]) : j \in 1..Len(e.values)}
\* every value node of a tree, at every depth
TreeValues(t) == UNION {EntryValues(t.entries[i]) : i \in 1..Len(t.entries)}

RECURSIVE ValueEqual(_, _)
\* value equality of two nodes: payloads bit for bit, a map as an unordered
\* association
ValueEqual(a, b) ==
    /\ a.kind = b.kind /\ a.name = b.name /\ a.value = b.value
    /\ a.value_type = b.value_type /\ a.key_type = b.key_type
    /\ a.struct_name = b.struct_name
    /\ Len(a.items) = Len(b.items)
    /\ \A i \in 1..Len(a.items) : ValueEqual(a.items[i], b.items[i])
    /\ Len(a.map) = Len(b.map)
    /\ \E p \in Permutations(1..Len(a.map)) :
          \A i \in 1..Len(a.map) :
              /\ ValueEqual(a.map[i].key, b.map[p[i]].key)
              /\ ValueEqual(a.map[i].value, b.map[p[i]].value)

TreeEqual(s, t) ==
    /\ s.dependencies = t.dependencies
    /\ Len(s.entries) = Len(t.entries)
    /\ \A i \in 1..Len(s.entries) :
          /\ s.entries[i].class = t.entries[i].class
          /\ s.entries[i].path = t.entries[i].path
          /\ Len(s.entries[i].values) = Len(t.entries[i].values)
          /\ \A j \in 1..Len(s.entries[i].values) :
                ValueEqual(s.entries[i].values[j], t.entries[i].values[j])

\* C1: whenever read_tree decoded the input to a tree T, read_tree of the
\* bytes write_tree emitted for T succeeds and yields a tree value-equal to T
\* (maps compared as unordered associations).
C1_RoundTrip ==
    pc = "done" => redecoded.st = "ok" /\ TreeEqual(redecoded.v, decoded.v)

\* a tree with a two-entry map written in the order opposite to the one it
\* was read in, and bytes that differ from the input, has made the round trip
C1_Witness ==
    /\ pc = "done" /\ redecoded.st = "ok"
    /\ output # input
    /\ tree # decoded.v
    /\ \E v \in TreeValues(tree) : v.kind = Map /\ Len(v.map) = 2

\* C2: for every value node of a decoded tree, at every depth, size(false)
\* is the number of bytes write emits and size(true) the number of bytes
\* write_value emits.
C2_SizeIsBytesWritten ==
    Returned =>
        \A v \in TreeValues(tree) :
            /\ BinValue_size(v, FALSE) = Len(BinValue_write(v))
            /\ BinValue_size(v, TRUE) = Len(write_value(v))

\* an Optional holding a Container holding a present Optional: three levels
C2_Witness ==
    /\ Returned
    /\ \E v \in TreeValues(tree) :
          /\ v.kind = Optional /\ v.items # <<>>
          /\ v.items[1].kind = Container /\ v.items[1].items # <<>>
          /\ v.items[1].items[1].kind = Optional /\ v.items[1].items[1].items # <<>>

\* the content-length field an aggregate's payload carries, against the bytes
\* emitted after that field
LengthFieldExact(v) ==
    LET exact(bs) ==
        CASE v.kind \in {Structure, Embedded} /\ v.struct_name # 0 ->
                from_le_bytes(SubSeq(bs, 5, 8)) = Len(bs) - 8
          [] v.kind \in {Container, Container2} ->
                from_le_bytes(SubSeq(bs, 2, 5)) = Len(bs) - 5
          [] v.kind = Map ->
                from_le_bytes(SubSeq(bs, 3, 6)) = Len(bs) - 6
          [] OTHER -> TRUE
    IN  exact(write_value(v))

\* C3: in what write_tree emits, the content-length field of every named
\* Structure/Embedded, Container/Container2 and Map, at every depth, is the
\* number of bytes emitted for it after that field.
C3_ContentLengthExact ==
    Returned => \A v \in TreeValues(tree) : LengthFieldExact(v)

\* a Container whose element is a Structure with a name: a length field
\* inside a length field
C3_Witness ==
    /\ pc = "written"
    /\ \E v \in TreeValues(tree) :
          /\ v.kind \in {Container, Container2} /\ v.items # <<>>
          /\ v.items[1].kind = Structure /\ v.items[1].struct_name # 0

\* C4: unpack_value_type(pack_value_type(k)) = k for each of the 26 kinds.
C4_TagRoundTrip ==
    tag_pc = "pack_unpack" => (tag_kind.st = "ok" /\ tag_kind.v = tag_arg)

C4_Witness ==
    tag_pc = "pack_unpack" /\ tag_arg = FlagsBoolean /\ tag_byte = 135

\* C5 (as claimed): a tag byte that unpacks outside 0..25 makes read_tree
\* return an error to its caller.
C5_InvalidTagReturnsError ==
    (pc = "failed" /\ decoded.msg = "Invalid Value type") => decoded.st = "invalid_data"

C7_MagicAndVersion ==
    (pc \notin {"feed", "idle"} /\ Len(input) >= 4) =>
        IF SubSeq(input, 1, 4) # PROP
        THEN pc = "failed" /\ decoded.st = "invalid_data" /\ decoded.pos = 4
        ELSE Len(input) >= 8 =>
                IF from_le_bytes(SubSeq(input, 5, 8)) \notin {1, 2}
                THEN pc = "failed" /\ decoded.st = "invalid_data" /\ decoded.pos = 8
                ELSE decoded.pos >= 8 /\ decoded.msg \notin {"Invalid magic", "Unsupported version"}

C7_Witness ==
    /\ pc = "failed" /\ Len(input) = 8
    /\ SubSeq(input, 1, 4) = PROP
    /\ from_le_bytes(SubSeq(input, 5, 8)) = 3
    /\ decoded.msg = "Unsupported version"

RECURSIVE SumLen(_)
SumLen(strings) == IF strings = <<>> THEN 0 ELSE 2 + Len(Head(strings)) + SumLen(Tail(strings))

\* where the class identifiers start in a version-2 stream of tree t
ClassBase(t) == 16 + SumLen(t.dependencies)
\* and in the input, which may be of version 1
InputClassBase == IF input[5] = 1 THEN 12 ELSE ClassBase(decoded.v)

RECURSIVE BodyStart(_, _, _)
\* where the body of entry i starts, after n class identifiers from base
BodyStart(t, base, i) ==
    IF i = 1 THEN base + 4 * Len(t.entries)
    ELSE BodyStart(t, base, i - 1) + 4 + BinEntry_size(t.entries[i - 1])

U32At(bytes, at) == from_le_bytes(SubSeq(bytes, at + 1, at + 4))
U16At(bytes, at) == from_le_bytes(SubSeq(bytes, at + 1, at + 2))

\* C8: the class identifiers are contiguous and come before every entry
\* body.  The writer emits nothing but class identifiers between the entry
\* count and the first body, in entry order; the reader gives the i-th entry
\* body the i-th class identifier.
C8_ClassesBeforeBodies ==
    /\ pc = "write_classes" => Len(output) = ClassBase(tree) + 4 * (wi - 1)
    /\ (pc = "write_entries" /\ wi = 1) => Len(output) = ClassBase(tree) + 4 * Len(tree.entries)
    /\ pc \in {"write_entries", "written", "done"} =>
          \A i \in 1..Len(tree.entries) :
              U32At(output, ClassBase(tree) + 4 * (i - 1)) = tree.entries[i].class
    /\ pc \in {"written", "done"} =>
          \A i \in 1..Len(tree.entries) :
              U16At(output, BodyStart(tree, ClassBase(tree), i) + 8) = Len(tree.entries[i].values)
    /\ Returned =>
          \A i \in 1..Len(decoded.v.entries) :
              /\ decoded.v.entries[i].class = U32At(input, InputClassBase + 4 * (i - 1))
              /\ Len(decoded.v.entries[i].values)
                    = U16At(input, BodyStart(decoded.v, InputClassBase, i) + 8)

\* two entries of different classes and different value counts, written
C8_Witness ==
    /\ pc = "written"
    /\ Len(tree.entries) = 2
    /\ tree.entries[1].class # tree.entries[2].class
    /\ Len(tree.entries[1].values) # Len(tree.entries[2].values)

PairKinds == {Container, Container2, Structure, Embedded}
\* the wire tag of a kind of the second revision
WireTag(k) == 128 + (k - 18)

\* C9: a node decoded as Container2 (Container, Embedded, Structure) is
\* written with the tag of Container2 (Container, Embedded, Structure), and
\* so is such a declared element, inner, key or value kind.
C9_TagsPreserved ==
    Returned =>
        \A v \in TreeValues(tree) :
            /\ v.kind \in PairKinds => BinValue_write(v)[5] = WireTag(v.kind)
            /\ (v.kind \in {Container, Container2, Optional} /\ v.value_type \in PairKinds)
                  => write_value(v)[1] = WireTag(v.value_type)
            /\ (v.kind = Map /\ v.key_type \in PairKinds)
                  => write_value(v)[1] = WireTag(v.key_type)
            /\ (v.kind = Map /\ v.value_type \in PairKinds)
                  => write_value(v)[2] = WireTag(v.value_type)

\* a Container2 of Optionals, one holding an Embedded
C9_Witness ==
    /\ pc = "done"
    /\ \E v \in TreeValues(tree) :
          /\ v.kind = Container2 /\ v.value_type = Optional /\ v.items # <<>>
          /\ v.items[1].value_type = Embedded /\ v.items[1].items # <<>>

HashableKinds == {Boolean, SByte, Byte, Int16, UInt16, Int32, UInt32, Int64, UInt64, String, Hash}

\* C10 (as claimed): a value of a kind that is not hashable is never accepted
\* as the key of a decoded map.
C10_NonHashableKeyRejected ==
    Returned =>
        \A v \in TreeValues(tree) :
            (v.kind = Map /\ v.map # <<>>) => v.key_type \in HashableKinds

\* the ASCII lower-case form of a text
lower(text) == [i \in 1..Len(text) |-> IF text[i] \in 65..90 THEN text[i] + 32 ELSE text[i]]

\* C11 (as claimed): String keys that differ only in case share one slot, so
\* a decoded map never holds two String keys with the same lower-case form.
C11_StringKeysFoldCase ==
    decoded.st = "ok" =>
        \A v \in TreeValues(decoded.v) :
            \A i, j \in 1..Len(v.map) :
                (/\ i # j
                 /\ v.map[i].key.kind = String /\ v.map[j].key.kind = String)
                    => lower(v.map[i].key.value) # lower(v.map[j].key.value)

\* where dependency i starts in a version-2 stream
DependencyStart(dependencies, i) == 12 + SumLen(SubSeq(dependencies, 1, i - 1))

\* a version-2 stream carries the dependency list of t after the version:
\* the count, then each dependency as its length and its bytes, then the
\* entry count
DependencyListAt(bytes, t) ==
    /\ U32At(bytes, 8) = Len(t.dependencies)
    /\ \A i \in 1..Len(t.dependencies) :
          /\ U16At(bytes, DependencyStart(t.dependencies, i)) = Len(t.dependencies[i])
          /\ SubSeq(bytes, DependencyStart(t.dependencies, i) + 3,
                    DependencyStart(t.dependencies, i) + 2 + Len(t.dependencies[i]))
                = t.dependencies[i]
    /\ U32At(bytes, ClassBase(t) - 4) = Len(t.entries)

\* C12: write_tree emits version 2 and the dependency list whatever the
\* version of the stream the tree came from; read_tree takes a dependency
\* list from a version-2 stream only, and from a version-1 stream takes no
\* dependencies and the entry count right after the version.
C12_VersionAndDependencies ==
    /\ pc \notin {"feed", "failed", "idle", "write_header"} =>
          SubSeq(output, 1, 4) = PROP /\ U32At(output, 4) = 2
    /\ pc \in {"write_classes", "write_entries", "written", "done"} =>
          DependencyListAt(output, tree)
    /\ Returned =>
          IF U32At(input, 4) = 1
          THEN /\ decoded.v.dependencies = <<>>
               /\ U32At(input, 8) = Len(decoded.v.entries)
          ELSE DependencyListAt(input, decoded.v)

\* a version-1 stream with an entry, written back as version 2
C12_Witness ==
    /\ pc = "done"
    /\ U32At(input, 4) = 1 /\ Len(decoded.v.entries) >= 1
    /\ U32At(output, 4) = 2 /\ U32At(output, 8) = 0

\* the tree of the scenario
ScenarioTree ==
    BinTree(<< <<68, 101, 112, 101, 110, 100, 101, 110, 99, 121, 77, 111, 100, 117, 108, 101>> >>,
            << BinEntry(4660, 22136, << BinValue(Int32, 1, <<42>>),
                                        BinValue(String, 2, <<97, 98, 99>>) >>) >>)

\* C13: write_tree of the scenario tree (one dependency "DependencyModule",
\* one entry of class 0x1234 and path 0x5678 holding Int32 1 = 42 and String
\* 2 = "abc") emits exactly the 67 bytes of the wire layout, with the entry
\* size field 25, and read_tree of those bytes yields the same tree.
C13_Scenario ==
    /\ Len(ScenarioStream) = 67
    /\ (profile = "scenario" /\ Returned) =>
          /\ input = ScenarioStream
          /\ tree = ScenarioTree
    /\ (profile = "scenario" /\ pc \in {"written", "done"}) =>
          /\ output = ScenarioStream
          /\ U32At(output, 38) = 25
    /\ (profile = "scenario" /\ pc = "done") =>
          redecoded.st = "ok" /\ redecoded.v = ScenarioTree /\ redecoded.pos = 67

C13_Witness ==
    /\ profile = "scenario" /\ pc = "done"
    /\ tree = ScenarioTree /\ Len(output) = 67

\* the Structure and Embedded nodes of the tree whose name is 0
NamelessStructures == {v \in TreeValues(tree) : v.kind \in {Structure, Embedded} /\ v.struct_name = 0}

\* C14: a Structure or Embedded payload with name 0 is written as exactly the
\* 4 bytes of the name, whatever fields it holds, BinStructure::size is 4 for
\* it, and BinStructure::read of those bytes yields name 0 and no fields at
\* position 4, whatever follows them.
C14_NamelessStructure ==
    Returned =>
        /\ \A v \in NamelessStructures :
              /\ write_value(v) = <<0, 0, 0, 0>>
              /\ BinStructure_write(structure_of(v)) = <<0, 0, 0, 0>>
              /\ BinStructure_size(structure_of(v)) = 4
              /\ BinValue_size(v, TRUE) = 4
              /\ BinStructure_read(write_value(v), 0).st = "ok"
              /\ BinStructure_read(write_value(v), 0).pos = 4
              /\ BinStructure_read(write_value(v), 0).v.name = 0
              /\ BinStructure_read(write_value(v), 0).v.fields = <<>>
              /\ BinStructure_read(write_value(v) \o output, 0).pos = 4
              /\ BinStructure_read(write_value(v) \o output, 0).v.fields = <<>>
        /\ \A w \in TreeValues(tree) :
              /\ BinStructure_write(BinStructure(0, <<w>>)) = <<0, 0, 0, 0>>
              /\ BinStructure_size(BinStructure(0, <<w>>)) = 4

\* a nameless Embedded has been written and read back
C14_Witness ==
    /\ pc = "done" /\ redecoded.st = "ok"
    /\ \E v \in NamelessStructures : v.kind = Embedded

\* read_optional on bs, whose first byte is the tag of kind k, against
\* read_value of kind k on the bytes after the two header bytes
OptionalAgrees(bs, k) ==
    IF bs[2] = 0
    THEN /\ read_optional(bs, 0).st = "ok"
         /\ read_optional(bs, 0).pos = 2
         /\ read_optional(bs, 0).v[1] = k
         /\ read_optional(bs, 0).v[2] = <<>>
    ELSE /\ read_optional(bs, 0).st = read_value(bs, 2, 0, k).st
         /\ read_optional(bs, 0).pos = read_value(bs, 2, 0, k).pos
         /\ read_optional(bs, 0).st = "ok" =>
               /\ read_optional(bs, 0).v[1] = k
               /\ read_optional(bs, 0).v[2] = <<read_value(bs, 2, 0, k).v>>

\* the Optional nodes of the tree
Optionals == {v \in TreeValues(tree) : v.kind = Optional}

\* the presence bytes tried on an encoded Optional
PresenceBytes == {0, 1, 2, 255}

\* C15: read_optional with presence byte 0 returns the declared kind and no
\* payload at position 2, for every kind and whatever follows; with a nonzero
\* presence byte it returns the payload, the position and the error that
\* read_value of the declared kind returns on the bytes after the header.
C15_OptionalDecoding ==
    pc = "written" =>
        /\ \A k \in BinValueType :
              OptionalAgrees(<<pack_value_type(k), 0>> \o output, k)
        /\ \A v \in Optionals : \A b \in PresenceBytes :
              /\ OptionalAgrees([write_value(v) EXCEPT ![2] = b], v.value_type)
              /\ OptionalAgrees([write_value(v) EXCEPT ![2] = b] \o output, v.value_type)
              /\ OptionalAgrees(SubSeq([write_value(v) EXCEPT ![2] = b], 1,
                                       Len(write_value(v)) - 1) \o <<0>>, v.value_type)

\* the input held an Optional with presence byte 2 and a payload, and one
\* with presence byte 0
C15_Witness ==
    /\ pc = "done"
    /\ \E v \in Optionals : v.items # <<>> /\ v.items[1].kind \in {Container, Structure, String}
    /\ \E i \in 1..Len(input) - 1 : input[i + 1] = 2 /\ input[i] \in InnerTags

\* the Container and Container2 nodes of the tree without elements
EmptyContainers == {v \in TreeValues(tree) : v.kind \in {Container, Container2} /\ v.items = <<>>}

\* C16: for a Container without elements, of any element kind,
\* BinContainer::content_size is 4, BinContainer::size is 9 and
\* BinContainer::write emits 9 bytes: the tag, the length 4 and the count 0.
C16_EmptyContainer ==
    Returned =>
        /\ \A k \in BinValueType :
              /\ BinContainer_content_size(BinContainer(k, <<>>)) = 4
              /\ BinContainer_size(BinContainer(k, <<>>)) = 9
              /\ BinContainer_write(BinContainer(k, <<>>))
                    = <<pack_value_type(k)>> \o <<4, 0, 0, 0>> \o <<0, 0, 0, 0>>
        /\ \A v \in EmptyContainers :
              /\ BinContainer_content_size(container_of(v)) = 4
              /\ BinContainer_size(container_of(v)) = 9
              /\ BinValue_size(v, TRUE) = 9
              /\ Len(BinContainer_write(container_of(v))) = 9
              /\ Len(write_value(v)) = 9

\* an empty Container nested in another value has been written
C16_Witness ==
    /\ pc = "written"
    /\ \E v \in TreeValues(tree) :
          /\ v.kind = Optional /\ v.items # <<>>
          /\ v.items[1] \in EmptyContainers

\* C17 (as claimed): when the sink refuses bytes of the tree the encode entry
\* point returns the error; it has returned Ok(()) only if every byte it
\* emitted is on the sink.
C17_SinkFailureReturned ==
    pc \in {"written", "done"} => writer.sink = output /\ writer.buf = <<>>

RECURSIVE Concat(_)
\* the byte strings of a sequence, one after the other
Concat(ss) == IF ss = <<>> THEN <<>> ELSE Head(ss) \o Concat(Tail(ss))

\* what write_tree emits for a tree when it runs from start to end
write_tree_bytes(t) ==
    write_tree_header(t)
    \o Concat([i \in 1..Len(t.dependencies) |-> write_dependency(t.dependencies[i])])
    \o write_u32(Len(t.entries))
    \o Concat([i \in 1..Len(t.entries) |-> write_u32(t.entries[i].class)])
    \o Concat([i \in 1..Len(t.entries) |-> BinEntry_write(t.entries[i])])

\* read_tree of call c has returned
PairReturned(c) == calls[c].pc \notin {"read_header", "read_entries"}

\* C18: with the steps of two calls interleaved in any order, read_tree of
\* each call returns what read_tree returns on that call's stream alone, at
\* the same position, and write_tree_buffer of each call leaves on its sink
\* the bytes write_tree emits for its tree alone.
C18_CallsIndependent ==
    \A c \in DOMAIN calls :
        /\ PairReturned(c) =>
              /\ calls[c].result.st = read_tree(calls[c].reader.bytes).st
              /\ calls[c].result.pos = read_tree(calls[c].reader.bytes).pos
              /\ calls[c].result.v = read_tree(calls[c].reader.bytes).v
              /\ calls[c].result.msg = read_tree(calls[c].reader.bytes).msg
              /\ calls[c].result.what = read_tree(calls[c].reader.bytes).what
              /\ calls[c].reader.pos = read_tree(calls[c].reader.bytes).pos
        /\ calls[c].pc = "written" =>
              /\ calls[c].writer.sink = write_tree_bytes(read_tree(calls[c].reader.bytes).v)
              /\ calls[c].writer.buf = <<>>
        /\ calls[c].pc \in {"read_header", "read_entries", "returned"} =>
              calls[c].writer.sink = <<>> /\ calls[c].writer.buf = <<>>

\* the first call has decoded and encoded the scenario while the second,
\* on the cut stream, is between its header and its entry
C18_Witness ==
    /\ calls # <<>>
    /\ calls[1].pc = "written" /\ calls[1].reader.bytes = ScenarioStream
    /\ calls[2].pc = "read_entries" /\ calls[2].reader.pos = 38
    /\ calls[2].reader.bytes = SubSeq(ScenarioStream, 1, 60)

\* the kinds a node declares for what it holds agree with the kinds held
KindsAgree(v) ==
    /\ v.kind \in {Container, Container2} =>
          \A i \in 1..Len(v.items) : v.items[i].kind = v.value_type
    /\ v.kind = Optional =>
          \A i \in 1..Len(v.items) : v.items[i].kind = v.value_type
    /\ v.kind = Map =>
          \A i \in 1..Len(v.map) :
              /\ v.map[i].key.kind = v.key_type
              /\ v.map[i].value.kind = v.value_type

\* C19: in every tree read_tree returns, every Container/Container2 element
\* is of the declared element kind, every Map key and value of the declared
\* key and value kind, and every present Optional payload of the declared
\* inner kind.
C19_DeclaredKindsAgree ==
    decoded.st = "ok" => \A v \in TreeValues(decoded.v) : KindsAgree(v)

\* decoded: a Container with two elements, a Map with two pairs, or an
\* Optional holding a Container holding an element
C19_Witness ==
    /\ decoded.st = "ok"
    /\ \E v \in TreeValues(decoded.v) :
          \/ v.kind \in {Container, Container2} /\ Len(v.items) = 2
          \/ v.kind = Map /\ Len(v.map) = 2 /\ v.key_type # v.value_type
          \/ /\ v.kind = Optional /\ v.items # <<>>
             /\ v.items[1].kind = Container /\ v.items[1].items # <<>>

\* bs, the bytes BinEntry::write emits for e, are laid out as size, path,
\* value count, named values, and the size field counts what follows it
EntryLayout(e, bs) ==
    /\ Len(bs) = 4 + BinEntry_size(e)
    /\ U32At(bs, 0) = BinEntry_size(e)
    /\ U32At(bs, 0) = 6 + sum_sizes(e.values, FALSE)
    /\ U32At(bs, 0) = Len(bs) - 4
    /\ U32At(bs, 4) = e.path
    /\ U16At(bs, 8) = Len(e.values)
    /\ SubSeq(bs, 11, Len(bs)) = write_named_values(e.values)

\* C20: BinEntry::write emits a 4-byte size, the 4-byte path, the 2-byte
\* value count and the named values, in this order, and the size is 6 + the
\* with-header sizes of the values: the number of bytes after the size field.
C20_EntryLayout ==
    Returned =>
        \A i \in 1..Len(tree.entries) :
            EntryLayout(tree.entries[i], BinEntry_write(tree.entries[i]))

\* an entry with two values, one of them an aggregate, has been written
C20_Witness ==
    /\ pc = "written"
    /\ \E i \in 1..Len(tree.entries) :
          /\ Len(tree.entries[i].values) = 2
          /\ \E j \in 1..2 : tree.entries[i].values[j].kind \in {Container, Structure, Map, Optional, String}

\* C21: pack_value_type maps the kinds of index 0..17 to their index and the
\* kinds of index 18..25 to (index - 18) + 128, so Container..FlagsBoolean are
\* written as 128..135 and no kind is written as a byte in 18..127.
C21_PackedTags ==
    /\ tag_pc = "packed" =>
          /\ tag_arg \in 0..17 => tag_byte = tag_arg
          /\ tag_arg \in 18..25 => tag_byte = (tag_arg - 18) + 128
          /\ tag_arg \in Container..FlagsBoolean => tag_byte \in 128..135
    /\ tag_pc \in {"packed", "unpack_pack"} => tag_byte \notin 18..127

\* FlagsBoolean, the last kind, has been packed
C21_Witness ==
    tag_pc = "packed" /\ tag_arg = FlagsBoolean /\ tag_arg = 25 /\ tag_byte = 135

\* C24: unpack_value_type accepts exactly the bytes 0..25 and 128..135; the
\* bytes 18..25 unpack to the kinds of 128..135; and for an accepted byte b,
\* pack_value_type(unpack_value_type(b)) = b exactly when b is not in 18..25.
C24_UnpackedTags ==
    /\ tag_pc = "unpacked" =>
          /\ tag_kind.st = "ok" <=> tag_byte \in (0..25) \cup (128..135)
          /\ tag_byte \in 0..25 => tag_kind.v = tag_byte
          /\ tag_byte \in 128..135 => tag_kind.v = (tag_byte - 128) + 18
          /\ tag_byte \in 18..25 => tag_kind.v \in Container..FlagsBoolean
    /\ tag_pc = "unpack_pack" =>
          /\ tag_arg \in (0..25) \cup (128..135)
          /\ tag_byte = tag_arg <=> tag_arg \notin 18..25
          /\ tag_arg \in 18..25 => tag_byte = tag_arg + 110

\* the byte 18 has been unpacked to Container and packed to 128
C24_Witness ==
    tag_pc = "unpack_pack" /\ tag_arg = 18 /\ tag_kind.v = Container /\ tag_byte = 128

\* bs with the four bytes after offset `at` replaced by field
Patch(bs, at, field) ==
    [i \in 1..Len(bs) |-> IF i \in (at + 1)..(at + 4) THEN field[i - at] ELSE bs[i]]

\* the values tried in a declared size field
SizeFields == {<<0, 0, 0, 0>>, <<7, 7, 7, 7>>}

\* two decodes end alike: same outcome, same position, same value
SameDecode(a, b) ==
    /\ a.st = b.st /\ a.pos = b.pos
    /\ a.st = "ok" => a.v = b.v

\* the nodes of the tree that carry a content length
Sized == {v \in TreeValues(tree) :
             \/ v.kind \in {Structure, Embedded} /\ v.struct_name # 0
             \/ v.kind \in {Container, Container2, Map}}

\* where the content length sits in the payload of a node
LengthOffset(v) ==
    CASE v.kind \in {Structure, Embedded} -> 4
      [] v.kind \in {Container, Container2} -> 1
      [] v.kind = Map -> 2

\* C22: a stream and the same stream with another value in the declared size
\* of an entry, or in the content length of a Structure, Container or Map,
\* decode to the same tree and end at the same position.
C22_SizesAdvisory ==
    pc = "written" =>
        /\ \A i \in 1..Len(tree.entries) : \A f \in SizeFields :
              /\ SameDecode(read_tree(Patch(input, BodyStart(decoded.v, InputClassBase, i), f)),
                            decoded)
              /\ SameDecode(read_tree(Patch(output, BodyStart(tree, ClassBase(tree), i), f)),
                            read_tree(output))
        /\ \A v \in Sized : \A f \in SizeFields :
              SameDecode(read_value(Patch(write_value(v), LengthOffset(v), f), 0, v.name, v.kind),
                         read_value(write_value(v), 0, v.name, v.kind))

\* a Map nested in an entry was decoded from a stream whose declared sizes
\* are not the real ones
C22_Witness ==
    /\ pc = "written"
    /\ \E v \in Sized : v.kind = Map /\ v.map # <<>>
    /\ U32At(input, BodyStart(decoded.v, InputClassBase, 1)) # BinEntry_size(tree.entries[1])

\* b is a with something appended
Extends(a, b) == Len(b) >= Len(a) /\ SubSeq(b, 1, Len(a)) = a

\* C23: read_tree asks for each field at the end of the one before and its
\* position never decreases as the stream is fed to it; write_tree only
\* appends, to what it emits and to the sink, so no size or count already
\* emitted is changed, and what it has emitted at the end carries the sizes
\* of the whole tree.
C23_Linear ==
    [][/\ Extends(output, output')
       /\ Extends(writer.sink, writer'.sink)
       /\ (pc = "feed" /\ read_tree(input).st = "eof" /\ ~closed) =>
             read_tree(input).pos = Len(input)
       /\ pc = "feed" =>
             /\ Extends(input, input')
             /\ read_tree(input').pos >= read_tree(input).pos
       /\ (pc = "feed" /\ pc' # "feed") => decoded'.pos >= read_tree(input).pos
       /\ (pc # "written" /\ pc' = "written") =>
             /\ output' = write_tree_bytes(tree)
             /\ \A i \in 1..Len(tree.entries) :
                   U32At(output', BodyStart(tree, ClassBase(tree), i))
                      = Len(BinEntry_write(tree.entries[i])) - 4]_vars

\* a tree with two entries, or with a Container in a Container, was read
\* field by field and written
C23_Witness ==
    /\ pc = "written" /\ Len(input) >= 20 /\ output = writer.sink
    /\ \/ Len(tree.entries) = 2
       \/ \E v \in TreeValues(tree) :
             v.kind \in {Container, Optional} /\ v.items # <<>> /\ v.items[1].kind = Container

\* C25: read_tree of the bytes write_tree emitted for a decoded tree succeeds
\* with the read position at the end of those bytes: no byte is left unread
\* and no read falls short.
C25_ConsumedExactly ==
    pc = "done" =>
        /\ redecoded.st = "ok"
        /\ redecoded.pos = Len(writer.sink)
        /\ writer.sink = output
        /\ read_tree(SubSeq(output, 1, Len(output) - 1)).st = "eof"

\* a stream of 40 bytes or more, with nested values, was written and read
\* back
C25_Witness ==
    /\ pc = "done" /\ redecoded.pos >= 40
    /\ \E v \in TreeValues(tree) : v.kind \in {Container, Map, Structure} /\ (v.items # <<>> \/ v.map # <<>>)

RECURSIVE wire_pairs(_, _, _, _, _, _)
\* the n key/value pairs that stand on the wire from pos, one after the
\* other, equal keys included
wire_pairs(bytes, pos, kt, vt, n, pairs) ==
    LET v_(k, v) ==
            IF v.st # "ok" THEN pairs
            ELSE wire_pairs(bytes, v.pos, kt, vt, n - 1,
                            Append(pairs, [key |-> k.v, value |-> v.v]))
        k_(k) ==
            IF k.st # "ok" THEN pairs
            ELSE v_(k, read_value(bytes, k.pos, 0, vt))
    IN  IF n = 0 THEN pairs ELSE k_(read_value(bytes, pos, 0, kt))

\* in profile "map" the stream holds one entry with one Map.  Its pair count
\* comes after magic, version, entry count, class, entry size, path, value
\* count, name, tag, key tag, value tag and content length; its pairs follow.
MapCountAt == 4 + 4 + 4 + 4 + 4 + 4 + 2 + 4 + 1 + 1 + 1 + 4

\* the decoded map m against the pairs w of the wire: one entry per key, with
\* the value of the last wire pair of an equal key
LastWins(m, w) ==
    /\ Len(m) <= Len(w)
    /\ \A i, j \in 1..Len(m) : i # j => ~BinValue_eq(m[i].key, m[j].key)
    /\ \A i \in 1..Len(w) :
          BinValue_eq(w[i].key, w[i].key) =>
              \E j \in 1..Len(m) :
                  /\ BinValue_eq(m[j].key, w[i].key)
                  /\ (\A l \in (i + 1)..Len(w) : ~BinValue_eq(w[l].key, w[i].key))
                        => m[j].value = w[i].value
    /\ (\E i, j \in 1..Len(w) : i # j /\ BinValue_eq(w[i].key, w[j].key)) => Len(m) < Len(w)

\* the bytes BinMap::write emits for m carry its own count and length
MapWrittenAsHeld(m, bs) ==
    /\ U32At(bs, 6) = Len(m.map)
    /\ U32At(bs, 2) = 4 + sum_pair_sizes(m.map)
    /\ U32At(bs, 2) = Len(bs) - 6

\* C26: when the wire pairs of a Map hold equal keys, BinMap::read keeps one
\* entry per key with the value of the later pair, so the map has fewer
\* entries than the wire count; BinMap::write emits the number of entries
\* held as the count and 4 + the bare sizes of those pairs as the length.
C26_DuplicateKeys ==
    Returned =>
        /\ profile = "map" =>
              \A e \in 1..Len(decoded.v.entries) :
                  LastWins(decoded.v.entries[e].values[1].map,
                           wire_pairs(input, MapCountAt + 4,
                                      decoded.v.entries[e].values[1].key_type,
                                      decoded.v.entries[e].values[1].value_type,
                                      U32At(input, MapCountAt), <<>>))
        /\ \A v \in TreeValues(tree) :
              v.kind = Map => MapWrittenAsHeld(map_of(v), BinMap_write(map_of(v)))

\* a stream with two pairs of one key and the values 5 and 200 was decoded
\* to a map of one entry holding 200, and written
C26_Witness ==
    /\ profile = "map" /\ pc = "written"
    /\ U32At(input, MapCountAt) = 2
    /\ Len(tree.entries[1].values[1].map) = 1
    /\ tree.entries[1].values[1].map[1].value.value = <<200>>
    /\ wire_pairs(input, MapCountAt + 4, tree.entries[1].values[1].key_type,
                  tree.entries[1].values[1].value_type, 2, <<>>)[1].value.value = <<5>>

\* the length and count prefixes written for node v are the lengths and
\* counts it holds
PrefixesExact(v, bs) ==
    /\ v.kind = String =>
          /\ as_u16(Len(v.value)) = Len(v.value)
          /\ U16At(bs, 0) = Len(v.value)
    /\ (v.kind \in {Structure, Embedded} /\ v.struct_name # 0) =>
          /\ as_u16(Len(v.items)) = Len(v.items)
          /\ U16At(bs, 8) = Len(v.items)
    /\ v.kind \in {Container, Container2} => U32At(bs, 5) = Len(v.items)
    /\ v.kind = Map => U32At(bs, 6) = Len(v.map)

\* a string that was read holds as many bytes as its length field said
HoldsLength(r, n) == r.st = "ok" => Len(r.v) = n

\* the longest string tried at each offset of the stream
MaxText == 3

\* the bytes tried in a 16-bit length field
EdgeBytes == {0, 1, 255}

BareValues(v) ==
    (IF v.kind \in {Container, Container2, Optional}
     THEN {v.items[i] : i \in 1..Len(v.items)} ELSE {})
    \cup {v.map[i].key : i \in 1..Len(v.map)}
    \cup {v.map[i].value : i \in 1..Len(v.map)}

\* reading r gave back the bare node c and used every byte
ReadsBack(r, c, n) == r.st = "ok" /\ r.pos = n /\ ValueEqual(r.v, c)

\* C28: in a tree read_tree returned, a Structure or Embedded with name 0
\* has no fields and every bare node (container element, map key, map value,
\* present Optional payload) has name 0, so what the encoder leaves out is
\* nothing the tree holds: the payload bytes of a bare node read back as the
\* node itself.
C28_NothingDropped ==
    Returned =>
        /\ \A v \in NamelessStructures : v.items = <<>>
        /\ \A v \in TreeValues(tree) : \A c \in BareValues(v) :
              /\ c.name = 0
              /\ pc = "written" =>
                    ReadsBack(read_value(write_value(c), 0, 0, c.kind), c, Len(write_value(c)))

\* a tree with a present Optional whose payload is a nameless Structure
C28_Witness ==
    /\ pc = "written"
    /\ \E v \in TreeValues(tree) :
          /\ v.kind = Optional /\ v.items # <<>>
          /\ v.items[1] \in NamelessStructures
          /\ v.items[1].name = 0

\* the Map nodes of a tree
Maps(t) == {v \in TreeValues(t) : v.kind = Map}

\* C30: two BinValues that are equal under the derived == feed the same
\* writes to the hasher, among all nodes of the tree as decoded and as
\* handed to the writer (maps in another iteration order included), so a
\* BinMap never holds two entries with equal keys and finds a key nowhere
\* but where it is stored.
C30_EqualKeysHashAlike ==
    Returned =>
        /\ \A a \in TreeValues(tree) : \A b \in TreeValues(tree) \cup TreeValues(decoded.v) :
              BinValue_eq(a, b) => hash(a) = hash(b)
        /\ \A m \in Maps(tree) : \A i \in 1..Len(m.map) :
              /\ HashMap_find(m.map, m.map[i].key) \in {0, i}
              /\ \A j \in 1..Len(m.map) :
                    BinValue_eq(m.map[i].key, m.map[j].key) => i = j

\* the writer holds a map of two entries in another order than decoded, equal
\* to the decoded one, whose keys hash apart
C30_Witness ==
    /\ pc = "written"
    /\ \E a \in Maps(tree) : \E b \in Maps(decoded.v) :
          /\ Len(a.map) = 2 /\ a # b /\ BinValue_eq(a, b)
          /\ hash(a.map[1].key) # hash(a.map[2].key)

(* ------------------------- read_tree, one read at a time -------------- *)
\* The call stack of one read_tree call as a stack of frames, the innermost
\* first.  A frame is a loop of the decoder with n iterations left
\* ("dependencies", "classes", "entries", "named" = BinValue::read n times,
\* "values" = the elements of a container, "map" = the pairs of a map), one
\* read_value call ("value"), or the part of read_tree still to run
\* ("start", "counts").  Vec::with_capacity and HashMap::with_capacity are
\* taken to get the memory they ask for.
Frame(op, n, kt, vt) == [op |-> op, n |-> n, key_type |-> kt, value_type |-> vt]

\* a loop that does not count its iterations
iterate_again(frame) == frame

\* for _ in 0..n: one iteration has been taken
iterate(frame) == [frame EXCEPT !.n = @ - 1]

RECURSIVE read_fields(_, _, _, _)
\* the reads of a header one after the other, each ended by `?`: width 1, 2
\* or 4 is read_u8, read_u16, read_u32, width 0 is a tag byte handed to
\* unpack_value_type
read_fields(bytes, pos, widths, acc) ==
    LET r_(r) ==
            IF r.st # "ok" THEN r
            ELSE read_fields(bytes, r.pos, Tail(widths), Append(acc, r.v))
    IN  IF widths = <<>> THEN Ok(pos, acc)
        ELSE IF Head(widths) = 0 THEN r_(read_value_type(bytes, pos, "tag"))
        ELSE r_(read_unsigned(bytes, pos, Head(widths), "field"))

\* read_tree, lines 122-135: magic, version and, from version 2 on, the
\* dependency count
read_tree_start(bytes) ==
    LET version_(version) ==
            IF version.st # "ok" THEN version
            ELSE IF ~version_supported(version.v)
            THEN InvalidData(version.pos, "Unsupported version")
            ELSE IF version.v >= 2 THEN read_u32(bytes, version.pos, "dep_count")
            ELSE Ok(version.pos, 0)
        magic_(magic) ==
            IF magic.st # "ok" THEN magic
            ELSE IF ~magic_valid(magic.v) THEN InvalidData(magic.pos, "Invalid magic")
            ELSE version_(read_u32(bytes, magic.pos, "version"))
    IN  magic_(read_string(bytes, 0, 4, "magic"))

\* read_tree, lines 137-138: one dependency
read_dependency(bytes, pos) ==
    LET length_(length) ==
            IF length.st # "ok" THEN length
            ELSE read_string(bytes, length.pos, length.v, "dep")
    IN  length_(read_u16(bytes, pos, "dep_len"))

\* what read_value of kind value_type reads before it decodes a nested
\* value: the whole payload of a scalar, the header of a Container, Map,
\* Structure or Optional
value_header(bytes, pos, vt) ==
    IF vt \in {Container, Container2} THEN read_fields(bytes, pos, <<0, 4, 4>>, <<>>)
    ELSE IF vt \in {Structure, Embedded}
    THEN (IF read_u32(bytes, pos, "struct_name").st = "ok"
             /\ read_u32(bytes, pos, "struct_name").v = 0
          THEN read_fields(bytes, pos, <<4>>, <<>>)
          ELSE read_fields(bytes, pos, <<4, 4, 2>>, <<>>))
    ELSE IF vt = Optional THEN read_fields(bytes, pos, <<0, 1>>, <<>>)
    ELSE IF vt = Map THEN read_fields(bytes, pos, <<0, 0, 4, 4>>, <<>>)
    ELSE read_value(bytes, pos, 0, vt)

\* the loop read_value of kind value_type enters once its header h is read
value_frames(vt, h) ==
    IF vt \in {Container, Container2} THEN <<Frame("values", h[3], None, h[1])>>
    ELSE IF vt \in {Structure, Embedded}
    THEN (IF h[1] = 0 THEN <<>> ELSE <<Frame("named", h[3], None, None)>>)
    ELSE IF vt = Optional
    THEN (IF h[2] # 0 THEN <<Frame("value", 1, None, h[1])>> ELSE <<>>)
    ELSE IF vt = Map THEN <<Frame("map", h[4], h[1], h[2])>>
    ELSE <<>>

\* the reads the innermost frame makes next
frame_reads(bytes, pos, top) ==
    IF top.op = "start" THEN read_tree_start(bytes)
    ELSE IF top.op = "counts" THEN read_fields(bytes, pos, <<4>>, <<>>)
    ELSE IF top.op = "value" THEN value_header(bytes, pos, top.value_type)
    ELSE IF top.n = 0 THEN Ok(pos, <<>>)
    ELSE IF top.op = "dependencies" THEN read_dependency(bytes, pos)
    ELSE IF top.op = "classes" THEN read_fields(bytes, pos, <<4>>, <<>>)
    ELSE IF top.op = "entries" THEN read_fields(bytes, pos, <<4, 4, 2>>, <<>>)
    ELSE IF top.op = "named" THEN read_fields(bytes, pos, <<4, 0>>, <<>>)
    ELSE Ok(pos, <<>>)

\* the frames that take the place of the innermost one once it has read h
frames_after(top, h) ==
    IF top.op = "start"
    THEN <<Frame("dependencies", h, None, None), Frame("counts", 1, None, None)>>
    ELSE IF top.op = "counts"
    THEN <<Frame("classes", h[1], None, None), Frame("entries", h[1], None, None)>>
    ELSE IF top.op = "value" THEN value_frames(top.value_type, h)
    ELSE IF top.n = 0 THEN <<>>
    ELSE IF top.op = "entries" THEN <<Frame("named", h[3], None, None), iterate(top)>>
    ELSE IF top.op = "named" THEN <<Frame("value", 1, None, h[2]), iterate(top)>>
    ELSE IF top.op = "values"
    THEN <<Frame("value", 1, None, top.value_type), iterate(top)>>
    ELSE IF top.op = "map"
    THEN <<Frame("value", 1, None, top.key_type), Frame("value", 1, None, top.value_type),
           iterate(top)>>
    ELSE <<iterate(top)>>

\* the call after the reads h of its innermost frame: `?` returns the error,
\* a panic aborts, otherwise the call goes on at h.pos
go(r, h) ==
    IF h.st # "ok"
    THEN [r EXCEPT !.pc = IF h.st = "panic" THEN "abort" ELSE "error",
                   !.pos = h.pos, !.result = h]
    ELSE [r EXCEPT !.pos = h.pos,
                   !.stack = frames_after(Head(r.stack), h.v) \o Tail(r.stack),
                   !.deepest = IF Len(frames_after(Head(r.stack), h.v)) + Len(r.stack) - 1 > @
                               THEN Len(frames_after(Head(r.stack), h.v)) + Len(r.stack) - 1
                               ELSE @]

\* one step of read_tree: Ok(BinTree{..}) when nothing is pending
step(r) ==
    IF r.stack = <<>> THEN [r EXCEPT !.pc = "ok", !.result = Ok(r.pos, <<>>)]
    ELSE go(r, frame_reads(r.bytes, r.pos, Head(r.stack)))

\* a tree with an element loop that reads no byte (a Container of None), a
\* Map whose value is a present Optional holding a Structure with a String
\* field, and a nameless Embedded
RunTree ==
    BinTree(<< <<100>> >>,
            << BinEntry(1, 2,
                 << [BinValue(Container, 3, <<>>) EXCEPT
                        !.value_type = None,
                        !.items = <<BinValue(None, 0, <<>>), BinValue(None, 0, <<>>)>>],
                    [BinValue(Map, 4, <<>>) EXCEPT
                        !.key_type = UInt32, !.value_type = Optional,
                        !.map = << [key |-> BinValue(UInt32, 0, <<7>>),
                                    value |-> [BinValue(Optional, 0, <<>>) EXCEPT
                                        !.value_type = Structure,
                                        !.items = << [BinValue(Structure, 0, <<>>) EXCEPT
                                            !.struct_name = 9,
                                            !.items = <<BinValue(String, 5, <<97>>)>>] >>]] >>],
                    [BinValue(Embedded, 6, <<>>) EXCEPT !.struct_name = 0] >>) >>)

RunStream == write_tree_bytes(RunTree)

Prefixes(s) == {SubSeq(s, 1, n) : n \in 0..Len(s)}
\* s with one byte replaced by b
Patched(s, b) == {[s EXCEPT ![i] = b] : i \in 1..Len(s)}

\* the streams followed: the two streams cut at every length, the scenario
\* with each byte in turn replaced by 26, which is no wire tag, and a stream
\* with a byte after the tree
RunStreams ==
    Prefixes(RunStream) \cup Prefixes(ScenarioStream)
        \cup Patched(ScenarioStream, FlagsBoolean + 1) \cup {RunStream \o <<0>>}

NewRun(stream) ==
    [pc |-> "running", bytes |-> stream, pos |-> 0,
     stack |-> <<Frame("start", 1, None, None)>>, deepest |-> 1, result |-> NoResult]

InitRun ==
    /\ profile = "header"
    /\ input = <<>>
    /\ closed = FALSE
    /\ pc = "idle"
    /\ decoded = NoResult
    /\ tree = BinTree(<<>>, <<>>)
    /\ wi = 0
    /\ output = <<>>
    /\ redecoded = NoResult
    /\ writer = [buf |-> <<>>, sink |-> <<>>, room |-> -1]
    /\ tag_pc = "idle"
    /\ tag_byte = 0
    /\ tag_kind = NoResult
    /\ tag_arg = 0
    /\ calls = <<>>
    /\ run \in {NewRun(s) : s \in RunStreams}
    /\ run_steps = 0

\* the decoder makes its next reads
RunStep ==
    /\ run.pc = "running"
    /\ run' = step(run)
    /\ run_steps' = run_steps + 1
    /\ UNCHANGED <<mvars, tvars, calls>>

NextRun == RunStep

\* the call is running and takes a step
Running == run.pc = "running" /\ run_steps' = run_steps + 1

\* read_tree runs on one thread that nothing holds up: while the call is
\* running it takes its next step
SpecRun == InitRun /\ [][NextRun]_vars /\ WF_run_steps(Running)

\* the call has returned or aborted
Ended == run.pc \in {"ok", "error", "abort"}

====
